---------------------------- MODULE Spec2Model ----------------------------
(***************************************************************************)
(* Rope-and-pulley simulator: the Atwood integrator and the sandbox       *)
(* integrator of src/services/physicsEngine.ts, with the application      *)
(* state of src/App.tsx that feeds them.                                  *)
(*                                                                         *)
(* Numbers.  The source computes in IEEE doubles.  Here every quantity is  *)
(* an integer count of a fixed unit, chosen so that the products the code  *)
(* forms are exact and only its divisions (and the damping factors) round, *)
(* toward zero:                                                            *)
(*     mass          1/20 kg          (MassScale  = 20)                    *)
(*     acceleration  1 mm/s^2         (AccScale   = 1000)                  *)
(*     force         mass * acc unit  (ForceScale = 20000 per newton)      *)
(*     time          1 ms             (TimeScale  = 1000)                  *)
(*     velocity      acc * time unit  (VelScale   = 10^6 per m/s)          *)
(*     length        1 micrometre     (LenScale   = 10^6 per metre)        *)
(*     pixels        1/1000 px        (PxScale    = 1000)                  *)
(*     friction coefficient 1/100, air resistance 1/10, radius 1/10 m.     *)
(* TLC's integers are 32 bit and an overflow stops the run with an error,  *)
(* so an overflow can never pass silently.                                 *)
(***************************************************************************)
EXTENDS Integers, Sequences, FiniteSets, TLC

\* ------------------------------------------------------------ units
MassScale == 20
AccScale == 1000
TimeScale == 1000
ForceScale == MassScale * AccScale
VelScale == AccScale * TimeScale
LenScale == 1000000
CoeffScale == 100
AirScale == 10
RadiusScale == 10

\* ------------------------------------------------------------ constants.ts
GRAVITY == 9810
\* FRICTION_SCALE = 0.4, in tenths
FRICTION_SCALE == 4
AIR_RESISTANCE_SCALE == 3
METERS_TO_PIXELS == 100

IDEAL == "IDEAL"
REAL == "REAL"
RealityMode == {IDEAL, REAL}

\* ------------------------------------------------------------ arithmetic
Abs(x) == IF x < 0 THEN -x ELSE x

\* Math.sign
Sign(x) == IF x > 0 THEN 1 ELSE IF x < 0 THEN -1 ELSE 0

\* a / b for b > 0, rounded toward zero
Div(a, b) == IF a >= 0 THEN a \div b ELSE -((-a) \div b)

Min(a, b) == IF a < b THEN a ELSE b
Max(a, b) == IF a > b THEN a ELSE b

\* ------------------------------------------------------------ Atwood machine
\* The position limits 0.2 m and the broken-rope floor 4.5 m
Y_MARGIN == 200000
BROKEN_FLOOR == 4500000
\* state.totalRopeLength || 5.0
DEFAULT_ROPE_LEN == 5000000
\* |v| > 0.001 m/s
V_EPS == 1000

\* The broken branch: free fall of both masses, no rope constraint.
brokenDrag(state, v1, mode) ==
    IF mode = REAL
    THEN LET vm == Div(v1, 1000)
         IN  Div(Div(vm * vm, 10) * AIR_RESISTANCE_SCALE * state.airResistance, 100)
    ELSE 0

brokenAtwoodMut(state, dt, mode) ==
    [state EXCEPT !.tension1 = 0, !.tension2 = 0, !.velocity = 0,
                  !.acceleration = 0, !.isBroken = FALSE]
brokenAtwood(state, dt, mode) ==
    LET v0 == state.velocity + GRAVITY * dt
        drag == brokenDrag(state, v0, mode)
        v1 == v0 - Div(drag, state.mass1) * dt
        v2 == v0 - Div(drag, state.mass2) * dt
        y1a == state.y1 + Div(v1 * dt, 2 * TimeScale)
        y2a == state.y2 + Div(v2 * dt, 2 * TimeScale)
        newY1 == IF y1a > BROKEN_FLOOR THEN BROKEN_FLOOR ELSE y1a
        newY2 == IF y2a > BROKEN_FLOOR THEN BROKEN_FLOOR ELSE y2a
    IN  [state EXCEPT !.y1 = newY1, !.y2 = newY2,
                      !.tension1 = 0, !.tension2 = 0,
                      !.velocity = 0, !.acceleration = 0]

ropeLenOf(state) ==
    IF state.totalRopeLength = 0 THEN DEFAULT_ROPE_LEN ELSE state.totalRopeLength

effectivePulleyInertiaMassMut(state) == state.pulleyMass
effectivePulleyInertiaMass(state) == Div(state.pulleyMass, 2)

drivingForce(state) == (state.mass2 - state.mass1) * GRAVITY

\* massDiff < 0.001 kg
isBalancedAtwood(state) == Abs(state.mass2 - state.mass1) * 1000 < MassScale

\* -dist * (mass1 + mass2) * 5.0 : micrometres * mass units * 5 / 1000
centeringForceMut(state) == 0
centeringForce(state) ==
    IF isBalancedAtwood(state)
    THEN LET targetY == Div(ropeLenOf(state), 2)
             dist == targetY - state.y1
         IN  -Div(dist * (state.mass1 + state.mass2), 200)
    ELSE 0

atwoodFrictionForce(state) ==
    IF state.frictionCoeff > 0
    THEN Div(state.frictionCoeff * (state.mass1 + state.mass2) * GRAVITY * FRICTION_SCALE,
             CoeffScale * 10)
    ELSE 0

atwoodFrictionedForceMut(state) ==
    drivingForce(state) + centeringForce(state)
        - Sign(state.velocity) * atwoodFrictionForce(state)

\* netForce after friction (lines 76-89)
atwoodFrictionedForce(state) ==
    LET f0 == drivingForce(state) + centeringForce(state)
        ff == atwoodFrictionForce(state)
    IN  IF Abs(state.velocity) > V_EPS
        THEN f0 - Sign(state.velocity) * ff
        ELSE IF Abs(f0) <= ff THEN 0 ELSE f0 - Sign(f0) * ff

\* air resistance, REAL mode only (lines 92-96)
atwoodDragForce(state, mode) ==
    IF mode = REAL /\ Abs(state.velocity) > V_EPS
    THEN LET vm == Div(state.velocity, 1000)
             dragMagnitude ==
                 Div(Div(vm * vm, 10) * 2 * AIR_RESISTANCE_SCALE * state.airResistance, 100)
         IN  Sign(state.velocity) * dragMagnitude
    ELSE 0

atwoodNetForce(state, mode) ==
    atwoodFrictionedForce(state) - atwoodDragForce(state, mode)

totalInertialMass(state) ==
    state.mass1 + state.mass2 + effectivePulleyInertiaMass(state)

\* acceleration and velocity after the zero-crossing check (lines 100-109)
atwoodStiction(state, dt, mode) ==
    LET netForce == atwoodNetForce(state, mode)
        acc0 == Div(netForce, totalInertialMass(state))
        v0 == state.velocity + acc0 * dt
    IN  IF /\ Abs(state.velocity) > V_EPS
           /\ Sign(v0) # Sign(state.velocity)
           /\ Abs(netForce) <= atwoodFrictionForce(state)
        THEN [acceleration |-> 0, velocity |-> 0]
        ELSE [acceleration |-> acc0, velocity |-> v0]

\* newVelocity *= 0.90 when balanced (lines 114-116)
atwoodNewVelocityMut(state, dt, mode) ==
    Div(atwoodStiction(state, dt, mode).velocity * 9, 10)
atwoodNewVelocity(state, dt, mode) ==
    LET v == atwoodStiction(state, dt, mode).velocity
    IN  IF isBalancedAtwood(state) THEN Div(v * 9, 10) ELSE v

atwoodNewY1(state, dt, mode) ==
    state.y1 - Div(atwoodNewVelocity(state, dt, mode) * dt, TimeScale)

\* the boundary checks (lines 122 and 128)
atwoodHitsTopMut(state, newY1) == newY1 < 0
atwoodHitsTop(state, newY1) == newY1 < Y_MARGIN
atwoodHitsBottomMut(state, newY1) == FALSE
atwoodHitsBottom(state, newY1) == newY1 > ropeLenOf(state) - Y_MARGIN

\* which return statement a tick leaves by
atwoodExit(state, dt, mode) ==
    IF state.isBroken THEN "broken"
    ELSE IF atwoodHitsTop(state, atwoodNewY1(state, dt, mode)) THEN "clampTop"
    ELSE IF atwoodHitsBottom(state, atwoodNewY1(state, dt, mode)) THEN "clampBottom"
    ELSE "normal"

\* y2: (ropeLen - newY1) (lines 124, 130 and 150)
atwoodY2Mut(state, newY1) == DEFAULT_ROPE_LEN - newY1
atwoodY2(state, newY1) == ropeLenOf(state) - newY1

atwoodTension1Mut(state, acceleration) == state.mass1 * (GRAVITY - acceleration)
atwoodTension1(state, acceleration) == state.mass1 * (GRAVITY + acceleration)
atwoodTension2(state, acceleration) == state.mass2 * (GRAVITY - acceleration)

atwoodBreaksMut(state, mode, tension1, tension2) ==
    tension1 > state.ropeMaxTension \/ tension2 > state.ropeMaxTension
atwoodBreaksBothMut(state, mode, tension1, tension2) ==
    /\ mode = REAL
    /\ (tension1 > state.ropeMaxTension /\ tension2 > state.ropeMaxTension)
atwoodBreaks(state, mode, tension1, tension2) ==
    /\ mode = REAL
    /\ (tension1 > state.ropeMaxTension \/ tension2 > state.ropeMaxTension)

\* angularVelocity = newVelocity / pulleyRadius (line 145)
atwoodAngularVelocityMut(state, newVelocity) == newVelocity
atwoodAngularVelocity(state, newVelocity) ==
    Div(newVelocity * RadiusScale, state.pulleyRadius)

updateAtwoodPhysics(state, dt, mode) ==
    IF state.isBroken THEN brokenAtwood(state, dt, mode)
    ELSE
    LET ropeLen == ropeLenOf(state)
        sv == atwoodStiction(state, dt, mode)
        acceleration == sv.acceleration
        newVelocity == atwoodNewVelocity(state, dt, mode)
        newY1 == atwoodNewY1(state, dt, mode)
        tension1 == atwoodTension1(state, acceleration)
        tension2 == atwoodTension2(state, acceleration)
    IN  IF atwoodHitsTop(state, newY1)
        THEN [state EXCEPT !.velocity = 0, !.acceleration = 0,
                           !.y1 = Y_MARGIN, !.y2 = atwoodY2(state, Y_MARGIN)]
        ELSE IF atwoodHitsBottom(state, newY1)
        THEN [state EXCEPT !.velocity = 0, !.acceleration = 0,
                           !.y1 = ropeLen - Y_MARGIN, !.y2 = Y_MARGIN]
        ELSE [state EXCEPT !.y1 = newY1, !.y2 = atwoodY2(state, newY1),
                           !.velocity = newVelocity,
                           !.acceleration = acceleration,
                           !.tension1 = tension1, !.tension2 = tension2,
                           !.angularVelocity = atwoodAngularVelocity(state, newVelocity),
                           !.isBroken = atwoodBreaks(state, mode, tension1, tension2),
                           !.time = state.time + dt]


\* ------------------------------------------------------------ sandbox: topology
PxScale == 1000
\* an optional side flag that was never written (RopeSegment.fromSide?, toSide?)
UNDEFINED == 99
FLOOR_Y == 550000

RECURSIVE SeqSum(_)
SeqSum(s) == IF s = <<>> THEN 0 ELSE Head(s) + SeqSum(Tail(s))

RECURSIVE SeqMax(_)
SeqMax(s) == IF Len(s) = 1 THEN s[1] ELSE Max(Head(s), SeqMax(Tail(s)))

Ids(seq) == [i \in 1..Len(seq) |-> seq[i].id]
IdSet(seq) == {seq[i].id : i \in 1..Len(seq)}
SeqContains(seq, x) == \E i \in 1..Len(seq) : seq[i] = x

\* Array.prototype.find by id: the first element with that id, as a sequence of
\* zero or one element
FindById(seq, id) ==
    LET hits == {i \in 1..Len(seq) : seq[i].id = id}
    IN  IF hits = {} THEN <<>>
        ELSE <<seq[CHOOSE i \in hits : \A j \in hits : i <= j]>>

\* One pass of ropeSegments.forEach for the node currId (lines 196-215):
\* vq = [visited, queue]
RECURSIVE scanRopes(_, _, _, _, _)
scanRopes(ropes, i, currId, boundary, vq) ==
    IF i > Len(ropes) THEN vq
    ELSE
    LET r == ropes[i]
        vq1 == IF r.fromId = currId /\ r.toId \notin vq.visited /\ r.toId \notin boundary
               THEN [visited |-> vq.visited \cup {r.toId},
                     queue |-> Append(vq.queue, r.toId)]
               ELSE vq
        vq2 == IF r.toId = currId /\ r.fromId \notin vq1.visited /\ r.fromId \notin boundary
               THEN [visited |-> vq1.visited \cup {r.fromId},
                     queue |-> Append(vq1.queue, r.fromId)]
               ELSE vq1
    IN  scanRopes(ropes, i + 1, currId, boundary, vq2)

RECURSIVE bfsLoads(_, _, _, _, _)
bfsLoads(state, boundary, queue, visited, result) ==
    IF queue = <<>> THEN result
    ELSE
    LET currId == Head(queue)
        load == FindById(state.loads, currId)
        result1 == IF load # <<>> /\ ~SeqContains(result, load[1])
                   THEN Append(result, load[1]) ELSE result
        vq == scanRopes(state.ropeSegments, 1, currId, boundary,
                        [visited |-> visited, queue |-> Tail(queue)])
    IN  bfsLoads(state, boundary, vq.queue, vq.visited, result1)

findConnectedLoadsMut(state, startIds, boundary) ==
    bfsLoads(state, {}, startIds, {startIds[i] : i \in 1..Len(startIds)}, <<>>)

\* findConnectedLoads(startIds, boundaryCheck), the boundary given as a set of ids
findConnectedLoads(state, startIds, boundary) ==
    bfsLoads(state, boundary, startIds, {startIds[i] : i \in 1..Len(startIds)}, <<>>)

\* the ropes incident to curr, in order, as indices
incidentRopes(state, curr) ==
    SelectSeq([i \in 1..Len(state.ropeSegments) |-> i],
              LAMBDA i : state.ropeSegments[i].fromId = curr
                         \/ state.ropeSegments[i].toId = curr)

otherEnd(r, curr) == IF r.fromId = curr THEN r.toId ELSE r.fromId

sideAtPulleyMut(r, other) ==
    LET side == IF r.toId = other THEN r.fromSide ELSE r.toSide
    IN  IF side # UNDEFINED THEN side ELSE -1

\* the side flag read at a fixed pulley `other` reached over r (lines 238-241)
sideAtPulley(r, other) ==
    LET side == IF r.toId = other THEN r.toSide ELSE r.fromSide
    IN  IF side # UNDEFINED THEN side ELSE -1

RECURSIVE getSideLoop(_, _, _)
getSideLoop(state, q, visited) ==
    IF q = <<>> THEN 0
    ELSE
    LET curr == Head(q)
        fixedIds == IdSet(state.fixedPulleys)
        loadIds == IdSet(state.loads)
        ropes == incidentRopes(state, curr)
        toFixed == SelectSeq(ropes,
                     LAMBDA i : otherEnd(state.ropeSegments[i], curr) \in fixedIds)
        pushed == SelectSeq(ropes,
                     LAMBDA i : otherEnd(state.ropeSegments[i], curr) \in loadIds)
    IN  IF curr \in visited THEN getSideLoop(state, Tail(q), visited)
        ELSE IF toFixed # <<>>
        THEN sideAtPulley(state.ropeSegments[toFixed[1]],
                          otherEnd(state.ropeSegments[toFixed[1]], curr))
        ELSE getSideLoop(state,
                 Tail(q) \o [k \in 1..Len(pushed) |->
                                otherEnd(state.ropeSegments[pushed[k]], curr)],
                 visited \cup {curr})

getSide(state, startLoadId) == getSideLoop(state, <<startLoadId>>, {})

isRoped(state, id) ==
    \E i \in 1..Len(state.ropeSegments) :
        state.ropeSegments[i].fromId = id \/ state.ropeSegments[i].toId = id

\* loadGroupA and loadGroupB (lines 178-256)
loadGroupA(state) ==
    IF Len(state.movablePulleys) > 0
    THEN findConnectedLoads(state, Ids(state.movablePulleys),
                            IdSet(state.fixedPulleys) \cup IdSet(state.anchors))
    ELSE SelectSeq(state.loads,
                   LAMBDA l : isRoped(state, l.id) /\ getSide(state, l.id) \in {-1, 0})

loadGroupBMut(state) ==
    IF Len(state.movablePulleys) > 0
    THEN findConnectedLoads(state, Ids(state.fixedPulleys) \o Ids(state.anchors),
                            IdSet(state.movablePulleys))
    ELSE SelectSeq(state.loads,
                   LAMBDA l : isRoped(state, l.id) /\ getSide(state, l.id) = 1)

loadGroupB(state) ==
    IF Len(state.movablePulleys) > 0
    THEN LET groupAIds == IdSet(loadGroupA(state))
             loadsConnectedToFixed ==
                 findConnectedLoads(state, Ids(state.fixedPulleys) \o Ids(state.anchors),
                                    IdSet(state.movablePulleys))
         IN  SelectSeq(loadsConnectedToFixed, LAMBDA l : l.id \notin groupAIds)
    ELSE SelectSeq(state.loads,
                   LAMBDA l : isRoped(state, l.id) /\ getSide(state, l.id) = 1)

\* ------------------------------------------------------------ sandbox: forces
\* |loadVelocity| > 0.01 m/s
LV_EPS == 10000
\* the velocity clamp, 50 m/s
LV_MAX == 50000000
\* pulleyWeight in REAL mode, 0.1 kg
PULLEY_WEIGHT == 2
\* driveImbalance < 0.1 N
IMBALANCE_EPS == 2000
\* the ceiling without fixed pulleys (50 px), and the margin below them (5 px)
DEFAULT_CEILING == 50000
CEILING_MARGIN == 5000

Masses(loads) == [i \in 1..Len(loads) |-> loads[i].mass]
Ys(items) == [i \in 1..Len(items) |-> items[i].y]

pulleyWeight(mode) == IF mode = IDEAL THEN 0 ELSE PULLEY_WEIGHT

MassLoadOf(state, groupA, mode) ==
    SeqSum(Masses(groupA)) + Len(state.movablePulleys) * pulleyWeight(mode)

MassCounterOf(groupB) == SeqSum(Masses(groupB))

estimatedMA(state) ==
    IF Len(state.movablePulleys) > 0 THEN 2 * Len(state.movablePulleys) ELSE 1

\* lines 265-276
ForcePullOf(state, groupB) ==
    IF MassCounterOf(groupB) > 0 THEN MassCounterOf(groupB) * GRAVITY
    ELSE IF Len(groupB) = 0 THEN state.effortForce
    ELSE 0

MassPullInertiaOf(groupB) ==
    IF MassCounterOf(groupB) > 0 THEN MassCounterOf(groupB) ELSE 0

\* lines 278-284
sandboxFrictionForce(state, totalWeight) ==
    LET numPulleys == Len(state.fixedPulleys) + Len(state.movablePulleys)
    IN  IF state.friction > 0
        THEN Div(Div(totalWeight, 10) * state.friction * FRICTION_SCALE
                     * (IF numPulleys = 0 THEN 1 ELSE numPulleys),
                 CoeffScale)
        ELSE 0

\* the centroid term added to NetForce, and whether the system counts as balanced
\* (lines 290-322): yDiff * 0.1 N per pixel
sandboxCentering(state, groupA, groupB, netForce0) ==
    IF /\ MassCounterOf(groupB) > 0
       /\ (Len(groupA) > 0 \/ Len(state.movablePulleys) > 0)
       /\ Abs(netForce0) < IMBALANCE_EPS
    THEN LET avgY_A == IF Len(groupA) > 0
                       THEN Div(SeqSum(Ys(groupA)), Len(groupA))
                       ELSE IF Len(state.movablePulleys) > 0
                       THEN Div(SeqSum(Ys(state.movablePulleys)),
                                Len(state.movablePulleys))
                       ELSE 0
             avgY_B == IF Len(groupB) > 0
                       THEN Div(SeqSum(Ys(groupB)), Len(groupB))
                       ELSE 0
         IN  [isBalanced |-> TRUE,
              force |-> IF avgY_A > 0 /\ avgY_B > 0 THEN (avgY_A - avgY_B) * 2 ELSE 0]
    ELSE [isBalanced |-> FALSE, force |-> 0]

\* lines 324-330
sandboxApplyFriction(state, netForce, frictionForce) ==
    IF Abs(state.loadVelocity) > LV_EPS
    THEN netForce - Sign(state.loadVelocity) * frictionForce
    ELSE IF Abs(netForce) < frictionForce THEN 0
    ELSE netForce - Sign(netForce) * frictionForce

\* lines 332-336
sandboxDragForce(state, mode) ==
    IF mode = REAL /\ Abs(state.loadVelocity) > LV_EPS
    THEN LET vc == Div(state.loadVelocity, 10000)
             dragMagnitude ==
                 Div(vc * vc, 10) * 2 * 2 * AIR_RESISTANCE_SCALE * state.airResistance
         IN  Sign(state.loadVelocity) * dragMagnitude
    ELSE 0

EffectiveMassMut(state, groupA, groupB, mode) ==
    MassPullInertiaOf(groupB)
        + Div(MassLoadOf(state, groupA, mode), estimatedMA(state))
        + MassScale
EffectiveMassOf(state, groupA, groupB, mode) ==
    MassPullInertiaOf(groupB)
        + Div(MassLoadOf(state, groupA, mode), estimatedMA(state) * estimatedMA(state))
        + MassScale

\* newRopeVelocity within [-50, 50] (lines 362-363)
clampVelocityMut(v) == v
clampVelocity(v) == IF v > LV_MAX THEN LV_MAX ELSE IF v < -LV_MAX THEN -LV_MAX ELSE v

\* deltaRope = newRopeVelocity * dt * METERS_TO_PIXELS, in 1/1000 px
deltaRopeOf(v, dt) == Div(Div(v, 10) * dt, 1000)

\* lines 368-374
ceilingYOf(state) ==
    IF Len(state.fixedPulleys) > 0
    THEN SeqMax([i \in 1..Len(state.fixedPulleys) |->
                    state.fixedPulleys[i].y + state.fixedPulleys[i].radius])
         + CEILING_MARGIN
    ELSE DEFAULT_CEILING

\* lines 380-393, for an intact state
crosses(y, disp, ceilingY) ==
    \/ disp < 0 /\ y + disp < ceilingY
    \/ disp > 0 /\ y + disp > FLOOR_Y

boundaryHitOf(state, groupA, groupB, dispA, dispB, ceilingY) ==
    /\ ~state.isBroken
    /\ \/ \E i \in 1..Len(groupA) : crosses(groupA[i].y, dispA, ceilingY)
       \/ \E i \in 1..Len(state.movablePulleys) :
              crosses(state.movablePulleys[i].y, dispA, ceilingY)
       \/ \E i \in 1..Len(groupB) : crosses(groupB[i].y, dispB, ceilingY)

sandboxBreaksMut(state, mode, ForceLoad, MassLoad, ForcePull, frictionForce, acceleration) ==
    IF mode = REAL /\ ~state.isBroken
    THEN \/ Div(ForceLoad, estimatedMA(state)) + Div(frictionForce, 2)
                > state.ropeMaxTension
         \/ ForcePull > state.ropeMaxTension
    ELSE state.isBroken

\* lines 401-411
sandboxBreaks(state, mode, ForceLoad, MassLoad, ForcePull, frictionForce, acceleration) ==
    IF mode = REAL /\ ~state.isBroken
    THEN LET staticTension == Div(ForceLoad, estimatedMA(state))
             dynamicTension == MassLoad * Abs(acceleration)
             totalEstimatedTension ==
                 staticTension + dynamicTension + Div(frictionForce, 2)
         IN  \/ totalEstimatedTension > state.ropeMaxTension
             \/ ForcePull > state.ropeMaxTension
    ELSE state.isBroken

\* Sections 1-5 of updateSandboxPhysics, the scalar step (lines 171-415), as a chain
\* of records: each stage adds the values the code computes next.
\* lines 258-279
scMasses(state, mode, groupA, groupB) ==
    [loadGroupA |-> groupA, loadGroupB |-> groupB,
     MassLoad |-> MassLoadOf(state, groupA, mode),
     MA |-> estimatedMA(state),
     ForcePull |-> ForcePullOf(state, groupB),
     ForceLoad |-> MassLoadOf(state, groupA, mode) * GRAVITY,
     MassPullInertia |-> MassPullInertiaOf(groupB),
     EffectiveMass |-> EffectiveMassOf(state, groupA, groupB, mode)]

\* lines 279-286
scDrive(state, sc) ==
    sc @@ [frictionForce |-> sandboxFrictionForce(state, sc.ForceLoad + sc.ForcePull),
           staticDriveForce |-> sc.ForcePull - Div(sc.ForceLoad, sc.MA),
           centering |-> sandboxCentering(state, sc.loadGroupA, sc.loadGroupB,
                                          sc.ForcePull - Div(sc.ForceLoad, sc.MA))]

\* lines 288-343
scNetForce(state, mode, sc) ==
    sc @@ [isBalanced |-> sc.centering.isBalanced,
           NetForce |-> sandboxApplyFriction(state,
                            sc.staticDriveForce + sc.centering.force, sc.frictionForce)
                        - sandboxDragForce(state, mode)]

accelerationOf(state, sc) ==
    IF state.isBroken THEN 0 ELSE Div(sc.NetForce, sc.EffectiveMass)

\* lines 345-352
dampedRopeVelocity(state, dt, sc) ==
    IF sc.isBalanced
    THEN Div((state.loadVelocity + accelerationOf(state, sc) * dt) * 19, 20)
    ELSE state.loadVelocity + accelerationOf(state, sc) * dt

\* lines 354-360
sandboxStuck(state, dt, sc) ==
    /\ Abs(state.loadVelocity) > LV_EPS
    /\ Sign(dampedRopeVelocity(state, dt, sc)) # Sign(state.loadVelocity)
    /\ Abs(sc.staticDriveForce) <= sc.frictionForce

\* lines 345-374
scVelocity(state, dt, sc) ==
    sc @@ [preVetoVelocity |->
               clampVelocity(IF sandboxStuck(state, dt, sc) THEN 0
                             ELSE dampedRopeVelocity(state, dt, sc)),
           preVetoAcceleration |->
               IF sandboxStuck(state, dt, sc) THEN 0 ELSE accelerationOf(state, sc),
           ceilingY |-> ceilingYOf(state)]

\* lines 376-399
scBoundary(state, dt, sc) ==
    sc @@ [boundaryHit |->
               boundaryHitOf(state, sc.loadGroupA, sc.loadGroupB,
                             -Div(deltaRopeOf(sc.preVetoVelocity, dt), sc.MA),
                             deltaRopeOf(sc.preVetoVelocity, dt), sc.ceilingY)]

scVetoMut(sc) ==
    sc @@ [newRopeVelocity |-> sc.preVetoVelocity,
           acceleration |-> IF sc.boundaryHit THEN 0 ELSE sc.preVetoAcceleration]

scVeto(sc) ==
    sc @@ [newRopeVelocity |-> IF sc.boundaryHit THEN 0 ELSE sc.preVetoVelocity,
           acceleration |-> IF sc.boundaryHit THEN 0 ELSE sc.preVetoAcceleration]

\* lines 401-411
scBreakage(state, mode, sc) ==
    sc @@ [isBroken |-> sandboxBreaks(state, mode, sc.ForceLoad, sc.MassLoad,
                                      sc.ForcePull, sc.frictionForce, sc.acceleration)]

\* lines 413-414
scDisplacement(dt, sc) ==
    sc @@ [finalDispA |-> IF sc.boundaryHit \/ sc.isBroken THEN 0
                          ELSE -Div(deltaRopeOf(sc.newRopeVelocity, dt), sc.MA),
           finalDispB |-> IF sc.boundaryHit \/ sc.isBroken THEN 0
                          ELSE deltaRopeOf(sc.newRopeVelocity, dt)]

sandboxScalar(state, dt, mode) ==
    scDisplacement(dt,
      scBreakage(state, mode,
        scVeto(
          scBoundary(state, dt,
            scVelocity(state, dt,
              scNetForce(state, mode,
                scDrive(state,
                  scMasses(state, mode, loadGroupA(state), loadGroupB(state)))))))))

\* ------------------------------------------------------------ sandbox: objects
\* otherFixed.radius || 25
DEFAULT_RADIUS == 25000
\* otherY when the other end is neither pulley nor anchor
FAR_Y == 9999000
\* the broken pulley's drift, 100 px/s
BROKEN_DRIFT == 100
\* the bounce thresholds 0.5 and 0.1
VY_REST == 500000
VX_REST == 100000

RECURSIVE SqrtSearch(_, _, _)
SqrtSearch(n, lo, hi) ==
    IF lo = hi THEN lo
    ELSE LET mid == (lo + hi + 1) \div 2
         IN  IF mid * mid <= n THEN SqrtSearch(n, mid, hi)
             ELSE SqrtSearch(n, lo, mid - 1)

\* Math.sqrt on a non-negative integer, rounded down
ISqrt(n) == SqrtSearch(n, 0, 46340)

\* x || 0 and radius || 25
OrZero(side) == IF side = UNDEFINED THEN 0 ELSE side
RadiusOr25(radius) == IF radius = 0 THEN DEFAULT_RADIUS ELSE radius

clampY(val, ceilingY) == Max(ceilingY, Min(FLOOR_Y, val))

movableNextY(p, dt, isBroken, finalDispA, ceilingY) ==
    IF isBroken THEN Min(FLOOR_Y, p.y + BROKEN_DRIFT * dt)
    ELSE clampY(p.y + finalDispA, ceilingY)

\* the target centre one rope asks of pulley p, as a sequence of zero or one value
\* (lines 432-469)
ropeTargetX(state, p, r) ==
    LET mine == r.fromId = p.id \/ r.toId = p.id
        fromMe == r.fromId = p.id
        otherId == IF fromMe THEN r.toId ELSE r.fromId
        mySide == IF fromMe THEN OrZero(r.fromSide) ELSE OrZero(r.toSide)
        otherSide == IF fromMe THEN OrZero(r.toSide) ELSE OrZero(r.fromSide)
        otherFixed == FindById(state.fixedPulleys, otherId)
        otherAnchor == FindById(state.anchors, otherId)
        otherMovable == FindById(state.movablePulleys, otherId)
        otherY == IF otherFixed # <<>> THEN otherFixed[1].y
                  ELSE IF otherAnchor # <<>> THEN otherAnchor[1].y
                  ELSE IF otherMovable # <<>> THEN otherMovable[1].y
                  ELSE FAR_Y
        anchorX == IF otherFixed # <<>>
                   THEN otherFixed[1].x + otherSide * RadiusOr25(otherFixed[1].radius)
                   ELSE IF otherAnchor # <<>> THEN otherAnchor[1].x
                   ELSE IF otherMovable # <<>>
                   THEN otherMovable[1].x + otherSide * RadiusOr25(otherMovable[1].radius)
                   ELSE 0
    IN  IF mine /\ otherY < p.y
        THEN <<anchorX - mySide * RadiusOr25(p.radius)>>
        ELSE <<>>

RECURSIVE ropeTargets(_, _, _)
ropeTargets(state, p, i) ==
    IF i > Len(state.ropeSegments) THEN <<>>
    ELSE ropeTargetX(state, p, state.ropeSegments[i]) \o ropeTargets(state, p, i + 1)

\* lines 418-498
updateMovablePulley(state, p, dt, isBroken, finalDispA, ceilingY) ==
    LET targets == ropeTargets(state, p, 1)
        count == Len(targets)
        sprung == count > 0 /\ ~isBroken
        dx == Div(SeqSum(targets), count) - p.x
        nextVx == IF sprung
                  THEN Div((p.vx + Div(12 * dx * dt, 10000)) * 19, 20)
                  ELSE Div(p.vx * 49, 50)
        nextX == IF sprung THEN p.x + Div(nextVx * dt, 200)
                 ELSE p.x + Div(nextVx * dt, 1000)
    IN  [p EXCEPT !.x = nextX,
                  !.y = movableNextY(p, dt, isBroken, finalDispA, ceilingY),
                  !.vx = nextVx]

\* the first rope at the load, as a sequence of zero or one rope (line 502)
connectedRopeOf(state, load) ==
    LET inc == incidentRopes(state, load.id)
    IN  IF inc = <<>> THEN <<>> ELSE <<state.ropeSegments[inc[1]]>>

\* lines 505-522
freeFallLoad(load, dt, mode) ==
    LET vy0 == load.vy + GRAVITY * dt * 5
        vy == IF mode = REAL THEN vy0 - Div(vy0, 100) ELSE vy0
        newY == load.y + deltaRopeOf(vy, dt)
        bounced == -Div(vy * 3, 10)
        vxFloor0 == Div(load.vx * 9, 10)
        vxFloor == IF Abs(vxFloor0) < VX_REST THEN 0 ELSE vxFloor0
    IN  IF newY >= FLOOR_Y
        THEN [load EXCEPT !.y = FLOOR_Y,
                          !.vy = IF Abs(bounced) < VY_REST THEN 0 ELSE bounced,
                          !.vx = vxFloor,
                          !.x = load.x + Div(vxFloor * dt, 1000000)]
        ELSE [load EXCEPT !.y = newY, !.vy = vy,
                          !.x = load.x + Div(load.vx * dt, 1000000)]

\* the pivot of a roped load, as a sequence of zero or one point (lines 532-552)
pivotPointOf(state, updatedMovablePulleys, load, rope) ==
    LET otherId == otherEnd(rope, load.id)
        otherFixed == FindById(state.fixedPulleys, otherId)
        otherMovable == FindById(updatedMovablePulleys, otherId)
        otherAnchor == FindById(state.anchors, otherId)
        ropeSideAtPulley == IF rope.fromId = otherId THEN OrZero(rope.fromSide)
                            ELSE OrZero(rope.toSide)
    IN  IF otherFixed # <<>>
        THEN <<[x |-> otherFixed[1].x + ropeSideAtPulley * otherFixed[1].radius,
                y |-> otherFixed[1].y]>>
        ELSE IF otherMovable # <<>>
        THEN <<[x |-> otherMovable[1].x + ropeSideAtPulley * otherMovable[1].radius,
                y |-> otherMovable[1].y]>>
        ELSE IF otherAnchor # <<>>
        THEN <<[x |-> otherAnchor[1].x, y |-> otherAnchor[1].y]>>
        ELSE <<>>

systemDispY(load, sc) ==
    IF load.id \in IdSet(sc.loadGroupA) THEN sc.finalDispA
    ELSE IF load.id \in IdSet(sc.loadGroupB) THEN sc.finalDispB
    ELSE 0

\* lines 524-575
ropedLoad(state, updatedMovablePulleys, load, rope, dt, sc) ==
    LET newY == clampY(load.y + systemDispY(load, sc), sc.ceilingY)
        pivot == pivotPointOf(state, updatedMovablePulleys, load, rope)
        dx10 == Div(load.x - pivot[1].x, 100)
        dy10 == Div(load.y - pivot[1].y, 100)
        length == ISqrt(dx10 * dx10 + dy10 * dy10)
        restoringAccelX == -Div(GRAVITY * 25 * dx10, 10 * length)
        newVx == IF pivot # <<>> /\ newY > pivot[1].y
                 THEN IF length > 0
                      THEN Div((load.vx + restoringAccelX * dt) * 49, 50)
                      ELSE load.vx
                 ELSE Div(load.vx * 9, 10)
    IN  [load EXCEPT !.y = newY, !.x = load.x + deltaRopeOf(newVx, dt),
                     !.vx = newVx, !.vy = 0]

updateLoadMut(state, updatedMovablePulleys, load, dt, mode, sc) ==
    LET rope == connectedRopeOf(state, load)
    IN  IF rope # <<>>
        THEN ropedLoad(state, updatedMovablePulleys, load, rope[1], dt, sc)
        ELSE freeFallLoad(load, dt, mode)

updateLoad(state, updatedMovablePulleys, load, dt, mode, sc) ==
    LET rope == connectedRopeOf(state, load)
    IN  IF rope # <<>> /\ ~sc.isBroken
        THEN ropedLoad(state, updatedMovablePulleys, load, rope[1], dt, sc)
        ELSE freeFallLoad(load, dt, mode)

updatedMovablePulleysOf(state, dt, sc) ==
    [i \in 1..Len(state.movablePulleys) |->
        updateMovablePulley(state, state.movablePulleys[i], dt, sc.isBroken,
                            sc.finalDispA, sc.ceilingY)]

updatedLoadsOfMut(state, updatedMovablePulleys, dt, mode, sc) ==
    LET roped == SelectSeq(state.loads, LAMBDA l : isRoped(state, l.id))
    IN  [i \in 1..Len(roped) |->
            updateLoad(state, updatedMovablePulleys, roped[i], dt, mode, sc)]

updatedLoadsOf(state, updatedMovablePulleys, dt, mode, sc) ==
    [i \in 1..Len(state.loads) |->
        updateLoad(state, updatedMovablePulleys, state.loads[i], dt, mode, sc)]

\* the returned state (lines 578-585)
sandboxResult(state, dt, mode, sc, updatedMovablePulleys) ==
    [state EXCEPT
        !.loadVelocity = IF sc.isBroken THEN 0 ELSE sc.newRopeVelocity,
        !.loadPosition = state.loadPosition
            + (IF sc.isBroken THEN 0 ELSE deltaRopeOf(sc.newRopeVelocity, dt)),
        !.movablePulleys = updatedMovablePulleys,
        !.loads = updatedLoadsOf(state, updatedMovablePulleys, dt, mode, sc),
        !.isBroken = sc.isBroken]

sandboxStep(state, dt, mode, sc) ==
    sandboxResult(state, dt, mode, sc, updatedMovablePulleysOf(state, dt, sc))

updateSandboxPhysics(state, dt, mode) ==
    IF state.isDragging THEN state
    ELSE sandboxStep(state, dt, mode, sandboxScalar(state, dt, mode))

\* ------------------------------------------------------------ application state
VARIABLES
    atwoodState,    \* App.tsx: useState<AtwoodState>
    sandboxState,   \* App.tsx: useState<SandboxState>
    activeTab,      \* App.tsx: useState<SimulationType>
    steps,          \* the number of ticks taken so far
    lastOp,         \* the last operation: "init", "atwood" or "sandbox"
    lastDt,         \* the dt and the mode handed to the last tick
    lastMode,
    prevAtwood,     \* the states that tick was taken from
    prevSandbox,
    paused,         \* App.tsx: useState(true)
    timeScale,      \* App.tsx: useState<number>(1.0), in tenths
    lastTimeRef,    \* App.tsx: useRef, zero or one frame time in ms
    clock,          \* the time of the latest animation frame, in ms
    frames,         \* the number of animation frames delivered so far
    lastElapsed,    \* the time between the latest frame and the one before it
    idleSpan,       \* the time covered by the latest run of frames without a step
    prevOp          \* the scheduler's operation before its last one

\* the scheduler's variables
schedVars == <<paused, timeScale, lastTimeRef, clock, frames, lastElapsed, idleSpan,
               prevOp>>

vars == <<atwoodState, sandboxState, activeTab, steps, lastOp, lastDt, lastMode,
          prevAtwood, prevSandbox, schedVars>>

\* A run in progress at normal speed; the specifications that hand the steps their
\* dt directly leave the scheduler as it is.
schedulerRunning ==
    /\ paused = FALSE
    /\ timeScale = 10
    /\ lastTimeRef = <<0>>
    /\ clock = 0
    /\ frames = 0
    /\ lastElapsed = 0
    /\ idleSpan = 0
    /\ prevOp = "init"

Px(n) == n * PxScale
Kg(n) == n * MassScale
Newton(n) == n * ForceScale
NULL == "null"
ATWOOD == "ATWOOD"
SANDBOX == "SANDBOX"

INITIAL_ATWOOD ==
    [mass1 |-> Kg(2), mass2 |-> Kg(3), pulleyMass |-> Kg(1), pulleyRadius |-> 2,
     frictionCoeff |-> 0, totalRopeLength |-> 5000000,
     ropeMaxTension |-> Newton(50), airResistance |-> 1, isBroken |-> FALSE,
     y1 |-> 2000000, y2 |-> 3000000, initialY1 |-> 2000000, initialY2 |-> 3000000,
     velocity |-> 0, angularVelocity |-> 0, acceleration |-> 0,
     tension1 |-> 0, tension2 |-> 0, time |-> 0]

INITIAL_SANDBOX ==
    [fixedPulleys |-> <<>>, movablePulleys |-> <<>>, loads |-> <<>>, anchors |-> <<>>,
     effortForce |-> Newton(50), loadPosition |-> 8000000, loadVelocity |-> 0,
     isDragging |-> FALSE, selectedId |-> NULL, friction |-> 0,
     ropeMaxTension |-> Newton(120), airResistance |-> 1, isBroken |-> FALSE,
     interactionMode |-> "select", ropeSegments |-> <<>>,
     ropeConnectionStartId |-> NULL,
     ropeBuilderState |-> [step |-> "idle", firstId |-> NULL, secondId |-> NULL]]

Pulley(id, x, y) == [id |-> id, x |-> x, y |-> Px(y), radius |-> Px(25), vx |-> 0]
Load(id, mass, color, x, y) ==
    [id |-> id, mass |-> Kg(mass), color |-> color, x |-> x, y |-> Px(y),
     vx |-> 0, vy |-> 0]
Anchor(id, x, y) == [id |-> id, x |-> x, y |-> Px(y)]
Rope(id, fromId, toId, type, fromSide, toSide) ==
    [id |-> id, fromId |-> fromId, toId |-> toId, type |-> type,
     fromSide |-> fromSide, toSide |-> toSide]

\* applyComplexPreset('movable')
PresetMovable ==
    [INITIAL_SANDBOX EXCEPT
        !.fixedPulleys = <<Pulley("fixed-1", 452500, 50)>>,
        !.movablePulleys = <<Pulley("movable-1", 400000, 300)>>,
        !.loads = <<Load("load-lift", 10, "#ef4444", 400000, 400),
                    Load("load-pull", 6, "#3b82f6", 478750, 300)>>,
        !.anchors = <<Anchor("anchor-1", 347500, 50)>>,
        !.effortForce = 0,
        !.ropeSegments =
            <<Rope("r1", "anchor-1", "movable-1", "pulley", 0, -1),
              Rope("r2", "movable-1", "fixed-1", "pulley", 1, -1),
              Rope("r3", "fixed-1", "load-pull", "pulley", 1, 0),
              Rope("r4", "movable-1", "load-lift", "direct", 0, 0)>>]

\* applyComplexPreset('tackle')
PresetTackle ==
    [INITIAL_SANDBOX EXCEPT
        !.fixedPulleys = <<Pulley("f1", 450000, 50), Pulley("f2", 500000, 50)>>,
        !.movablePulleys = <<Pulley("m1", 400000, 300)>>,
        !.anchors = <<Anchor("a1", 375000, 50)>>,
        !.loads = <<Load("load", 10, "#ef4444", 400000, 380),
                    Load("pull", 4, "#3b82f6", 525000, 200)>>,
        !.effortForce = 0,
        !.ropeSegments =
            <<Rope("s1", "a1", "m1", "pulley", 0, -1),
              Rope("s2", "m1", "f1", "pulley", 1, -1),
              Rope("s3", "f1", "f2", "pulley", 1, -1),
              Rope("s4", "f2", "pull", "pulley", 1, 0),
              Rope("s5", "m1", "load", "direct", UNDEFINED, UNDEFINED)>>]

\* Graphs built with the authoring buttons (addPulley, addWeightBlock, addAnchor and
\* the rope tools), objects where those operations put them.
\* One fixed and one movable pulley, a 10 kg load under the movable pulley, no
\* counterweight: the hand pulls with effortForce.
BuiltHoist ==
    [INITIAL_SANDBOX EXCEPT
        !.fixedPulleys = <<Pulley("fixed-1", 400000, 50)>>,
        !.movablePulleys = <<Pulley("movable-1", 400000, 250)>>,
        !.anchors = <<Anchor("anchor-1", 50000, 50)>>,
        !.loads = <<Load("load-1", 10, "#3b82f6", 400000, 350)>>,
        !.ropeSegments =
            <<Rope("rope-1", "anchor-1", "movable-1", "direct", 0, 0),
              Rope("rope-2", "movable-1", "fixed-1", "direct", 0, 0),
              Rope("rope-3", "movable-1", "load-1", "direct", 0, 0)>>]

\* Two loads over one fixed pulley, routed with the pulley-route tool.
BuiltAtwood ==
    [INITIAL_SANDBOX EXCEPT
        !.fixedPulleys = <<Pulley("fixed-1", 400000, 50)>>,
        !.loads = <<Load("load-1", 5, "#3b82f6", 350000, 350),
                    Load("load-2", 5, "#ef4444", 450000, 350)>>,
        !.ropeSegments =
            <<Rope("rope-1-1", "load-1", "fixed-1", "pulley", 0, -1),
              Rope("rope-1-2", "fixed-1", "load-2", "pulley", 1, 0)>>]

\* A lone movable pulley and a loose load, no rope at all.
BuiltLoose ==
    [INITIAL_SANDBOX EXCEPT
        !.movablePulleys = <<Pulley("movable-1", 400000, 250)>>,
        !.loads = <<Load("load-1", 5, "#3b82f6", 400000, 350)>>]

\* Two loads over one fixed pulley, the lighter one dragged up beside the pulley,
\* above the ceiling line of the boundary test.
BuiltHigh ==
    [INITIAL_SANDBOX EXCEPT
        !.fixedPulleys = <<Pulley("fixed-1", 400000, 50)>>,
        !.loads = <<Load("load-1", 3, "#3b82f6", 350000, 60),
                    Load("load-2", 5, "#ef4444", 450000, 350)>>,
        !.ropeSegments =
            <<Rope("rope-1-1", "load-1", "fixed-1", "pulley", 0, -1),
              Rope("rope-1-2", "fixed-1", "load-2", "pulley", 1, 0)>>]

SandboxGraphs ==
    {INITIAL_SANDBOX, PresetMovable, PresetTackle, BuiltHoist, BuiltAtwood, BuiltLoose,
     BuiltHigh}

\* The tick's inputs: dt = min(elapsed, 0.05) * timeScale, in ms
DtSet == {0, 16, 50}
MaxSteps == 3

\* Atwood scenarios: masses with pulley mass and radius (the presets of SimControls
\* among them), start height with rope length, friction, velocity and rope limit.
AtwoodBodies ==
    {<<Kg(2), Kg(3), Kg(1), 2>>, <<Kg(3), Kg(2), Kg(1), 2>>,
     <<Kg(2), Kg(2), Kg(1), 2>>, <<Kg(1), Kg(6), Kg(2), 5>>}

AtwoodHeights ==
    {<<200000, 5000000>>, <<250000, 5000000>>, <<2000000, 5000000>>,
     <<4800000, 5000000>>, <<500000, 1000000>>, <<3250000, 3500000>>}

AtwoodInits ==
    {[INITIAL_ATWOOD EXCEPT
         !.mass1 = m[1], !.mass2 = m[2], !.pulleyMass = m[3], !.pulleyRadius = m[4],
         !.frictionCoeff = f, !.totalRopeLength = y[2],
         !.y1 = y[1], !.y2 = y[2] - y[1],
         !.initialY1 = y[1], !.initialY2 = y[2] - y[1],
         !.velocity = v, !.ropeMaxTension = t] :
        m \in AtwoodBodies,
        f \in {0, 5, 50, 80},
        y \in AtwoodHeights,
        v \in {0, 2000, -2000, 2000000, -2000000},
        t \in {Newton(20), Newton(50)}}

SandboxInits ==
    {[g EXCEPT !.effortForce = IF g.effortForce = 0 THEN 0 ELSE e,
               !.friction = f, !.ropeMaxTension = t, !.loadVelocity = v] :
        g \in SandboxGraphs,
        e \in {Newton(50), Newton(100)},
        f \in {0, 10},
        t \in {Newton(50), Newton(120)},
        v \in {0, 2000000, -2000000, 49990000, -49990000}}

\* App.tsx line 88
isComplexAtwood ==
    /\ activeTab = ATWOOD
    /\ (Len(sandboxState.fixedPulleys) > 0 \/ Len(sandboxState.movablePulleys) > 0)

Init ==
    /\ \/ /\ atwoodState \in AtwoodInits
          /\ sandboxState = INITIAL_SANDBOX
          /\ activeTab = ATWOOD
       \/ /\ atwoodState = INITIAL_ATWOOD
          /\ sandboxState \in SandboxInits
          /\ activeTab = SANDBOX
    /\ steps = 0
    /\ lastOp = "init"
    /\ lastDt = 0
    /\ lastMode = IDEAL
    /\ prevAtwood = atwoodState
    /\ prevSandbox = sandboxState
    /\ schedulerRunning

\* animate, the Atwood branch (App.tsx lines 104-127).  dt and mode are the frame's
\* min(elapsed, 0.05) * timeScale and the realityMode of the moment; the samples the
\* frame appends to the graph's history are display data that no step reads back.
AtwoodTick ==
    /\ activeTab = ATWOOD /\ ~isComplexAtwood
    /\ steps < MaxSteps
    /\ \E dt \in DtSet, mode \in RealityMode :
        /\ atwoodState' = updateAtwoodPhysics(atwoodState, dt, mode)
        /\ lastDt' = dt
        /\ lastMode' = mode
    /\ prevAtwood' = atwoodState
    /\ lastOp' = "atwood"
    /\ steps' = steps + 1
    /\ UNCHANGED <<sandboxState, activeTab, prevSandbox, schedVars>>

\* animate, the sandbox branch (App.tsx lines 128-147)
SandboxTick ==
    /\ ~(activeTab = ATWOOD /\ ~isComplexAtwood)
    /\ steps < MaxSteps
    /\ \E dt \in DtSet, mode \in RealityMode :
        /\ sandboxState' = updateSandboxPhysics(sandboxState, dt, mode)
        /\ lastDt' = dt
        /\ lastMode' = mode
    /\ prevSandbox' = sandboxState
    /\ lastOp' = "sandbox"
    /\ steps' = steps + 1
    /\ UNCHANGED <<atwoodState, activeTab, prevAtwood, schedVars>>

Next == AtwoodTick \/ SandboxTick

Spec == Init /\ [][Next]_vars

\* ------------------------------------------------------------ the last tick
\* What the last tick did, read from the history variables.
atwoodTicked == lastOp = "atwood"
sandboxTicked == lastOp = "sandbox"
intactAtwoodTick == atwoodTicked /\ ~prevAtwood.isBroken
lastExit == atwoodExit(prevAtwood, lastDt, lastMode)

\* ------------------------------------------------------------ C1
\* C1: breakage is monotonic in both integrators: a tick of updateAtwoodPhysics or
\* updateSandboxPhysics taken from a broken state, with any dt and any mode, returns a
\* broken state.
C1_BreakageMonotonic ==
    /\ (atwoodTicked /\ prevAtwood.isBroken) => atwoodState.isBroken
    /\ (sandboxTicked /\ prevSandbox.isBroken) => sandboxState.isBroken

\* a tick was taken from a broken Atwood state, in IDEAL mode, after the rope broke
C1_Witness ==
    /\ atwoodTicked /\ prevAtwood.isBroken /\ atwoodState.isBroken
    /\ lastMode = IDEAL /\ steps = 2

\* ------------------------------------------------------------ C2
\* C2: the Intact -> Broken transition happens only in REAL mode: an IDEAL tick of
\* either integrator from an intact state returns an intact state, whatever the
\* tensions, the effort force and the rope limit are.
C2_IdealNeverBreaks ==
    /\ (atwoodTicked /\ lastMode = IDEAL /\ ~prevAtwood.isBroken)
           => ~atwoodState.isBroken
    /\ (sandboxTicked /\ lastMode = IDEAL /\ ~prevSandbox.isBroken)
           => ~sandboxState.isBroken

\* an IDEAL tick computed a tension above the rope limit and left the rope intact
C2_Witness ==
    /\ intactAtwoodTick /\ lastMode = IDEAL
    /\ atwoodState.tension1 > atwoodState.ropeMaxTension
    /\ atwoodState.tension1 # prevAtwood.tension1
    /\ ~atwoodState.isBroken

\* ------------------------------------------------------------ C3
\* C3: boundary clamp: started intact with 0.2 <= y1 <= totalRopeLength - 0.2, every
\* state that is still intact after any sequence of ticks has y1 in that range.
C3_BoundaryClamp ==
    ~atwoodState.isBroken =>
        /\ Y_MARGIN <= atwoodState.y1
        /\ atwoodState.y1 <= atwoodState.totalRopeLength - Y_MARGIN

\* a tick left by the upper clamp, and one step earlier the mass was below the limit
C3_Witness ==
    /\ intactAtwoodTick /\ lastExit = "clampTop"
    /\ prevAtwood.y1 > Y_MARGIN
    /\ atwoodState.y1 = Y_MARGIN /\ ~atwoodState.isBroken

\* ------------------------------------------------------------ C4
\* C4: rope-length invariant: every state returned by a tick from an intact state with
\* totalRopeLength > 0 has y1 + y2 = totalRopeLength, on normal ticks and on both
\* clamp exits.
C4_RopeLength ==
    (intactAtwoodTick /\ prevAtwood.totalRopeLength > 0) =>
        atwoodState.y1 + atwoodState.y2 = atwoodState.totalRopeLength

\* the lower clamp exit on a rope that is not the default 5 m
C4_Witness ==
    /\ intactAtwoodTick /\ lastExit = "clampBottom"
    /\ atwoodState.totalRopeLength # DEFAULT_ROPE_LEN
    /\ atwoodState.y2 = Y_MARGIN

\* ------------------------------------------------------------ C5
\* C5 as stated: on every tick taken from an intact Atwood state, the ticks that hit the
\* position clamp included, the returned state has
\* tension1 - tension2 = (mass1 - mass2)*g + (mass1 + mass2)*acceleration.
tensionIdentity(state) ==
    state.tension1 - state.tension2 =
        (state.mass1 - state.mass2) * GRAVITY
            + (state.mass1 + state.mass2) * state.acceleration

C5_AsStated ==
    intactAtwoodTick => tensionIdentity(atwoodState)

\* C5 amended: the identity holds on every tick from an intact state that does not hit
\* the position clamp; a clamp tick zeroes the acceleration and keeps the tensions of
\* the state it was given.
C5_TensionIdentity ==
    /\ (intactAtwoodTick /\ lastExit = "normal") => tensionIdentity(atwoodState)
    /\ (intactAtwoodTick /\ lastExit # "normal") =>
           /\ atwoodState.acceleration = 0
           /\ atwoodState.tension1 = prevAtwood.tension1
           /\ atwoodState.tension2 = prevAtwood.tension2

\* a normal tick of unequal masses with a non-zero acceleration
C5_Witness ==
    /\ intactAtwoodTick /\ lastExit = "normal"
    /\ atwoodState.mass1 # atwoodState.mass2
    /\ atwoodState.acceleration # 0
    /\ atwoodState.tension1 # atwoodState.tension2

\* ------------------------------------------------------------ C6
\* C6 as stated: for every Atwood state and every mode, a tick with dt = 0 returns a
\* state whose y1, y2, velocity, tension1, tension2 and time are those it was given.
C6_AsStated ==
    (atwoodTicked /\ lastDt = 0) =>
        /\ atwoodState.y1 = prevAtwood.y1
        /\ atwoodState.y2 = prevAtwood.y2
        /\ atwoodState.velocity = prevAtwood.velocity
        /\ atwoodState.tension1 = prevAtwood.tension1
        /\ atwoodState.tension2 = prevAtwood.tension2
        /\ atwoodState.time = prevAtwood.time

\* C6 amended: a tick with dt = 0 from an intact state with y1 + y2 = totalRopeLength
\* and y1 within the clamp range leaves y1, y2 and time unchanged; it leaves the
\* velocity unchanged when the masses differ and multiplies it by 0.9 when they are
\* equal; the tensions are not kept but computed anew from the acceleration.
C6_ZeroDt ==
    (intactAtwoodTick /\ lastDt = 0
        /\ prevAtwood.y1 + prevAtwood.y2 = prevAtwood.totalRopeLength
        /\ prevAtwood.y1 >= Y_MARGIN
        /\ prevAtwood.y1 <= prevAtwood.totalRopeLength - Y_MARGIN) =>
        /\ atwoodState.y1 = prevAtwood.y1
        /\ atwoodState.y2 = prevAtwood.y2
        /\ atwoodState.time = prevAtwood.time
        /\ Abs(prevAtwood.mass2 - prevAtwood.mass1) > 0 =>
               atwoodState.velocity = prevAtwood.velocity
        /\ prevAtwood.mass2 = prevAtwood.mass1 =>
               atwoodState.velocity = Div(prevAtwood.velocity * 9, 10)
        /\ atwoodState.tension1 =
               prevAtwood.mass1 * (GRAVITY + atwoodState.acceleration)
        /\ atwoodState.tension2 =
               prevAtwood.mass2 * (GRAVITY - atwoodState.acceleration)

\* a zero-dt tick of a moving, unbalanced machine
C6_Witness ==
    /\ intactAtwoodTick /\ lastDt = 0
    /\ prevAtwood.mass1 # prevAtwood.mass2
    /\ prevAtwood.velocity # 0
    /\ atwoodState.velocity = prevAtwood.velocity
    /\ atwoodState.tension1 # prevAtwood.tension1

\* ------------------------------------------------------------ C7
\* C7: for an intact state with |mass2 - mass1| >= 0.001, frictionCoeff = 0, in IDEAL
\* mode, on a tick that does not hit the position clamp, the returned acceleration is
\* (mass2 - mass1)*g / (mass1 + mass2 + 0.5*pulleyMass), whatever velocity,
\* pulleyRadius and dt are; for masses 2 and 3 and pulley mass 1 it is 9.81/5.5
\* (1783 mm/s^2).
C7_Acceleration ==
    (intactAtwoodTick /\ lastExit = "normal" /\ lastMode = IDEAL
        /\ prevAtwood.frictionCoeff = 0
        /\ Abs(prevAtwood.mass2 - prevAtwood.mass1) * 1000 >= MassScale) =>
        /\ atwoodState.acceleration =
               Div(2 * (prevAtwood.mass2 - prevAtwood.mass1) * GRAVITY,
                   2 * (prevAtwood.mass1 + prevAtwood.mass2) + prevAtwood.pulleyMass)
        /\ (prevAtwood.mass1 = Kg(2) /\ prevAtwood.mass2 = Kg(3)
               /\ prevAtwood.pulleyMass = Kg(1)) => atwoodState.acceleration = 1783

\* the scenario's tick on a moving machine
C7_Witness ==
    /\ intactAtwoodTick /\ lastExit = "normal" /\ lastMode = IDEAL
    /\ prevAtwood.frictionCoeff = 0
    /\ prevAtwood.mass1 = Kg(2) /\ prevAtwood.mass2 = Kg(3)
    /\ prevAtwood.velocity # 0 /\ lastDt = 16
    /\ atwoodState.acceleration = 1783


\* ------------------------------------------------------------ C8
\* The reduced model the last sandbox tick computed, and the case C8 is about: IDEAL
\* mode, no friction, at least one movable pulley, GroupB empty, the system at rest
\* and no boundary veto.
lastScalar == sandboxScalar(prevSandbox, lastDt, lastMode)

reducedCase ==
    /\ sandboxTicked /\ lastMode = IDEAL
    /\ prevSandbox.friction = 0
    /\ Len(prevSandbox.movablePulleys) >= 1
    /\ loadGroupB(prevSandbox) = <<>>
    /\ prevSandbox.loadVelocity = 0
    /\ ~lastScalar.boundaryHit

\* MA = 2N, NetForce = effortForce - (sum of GroupA masses)*g/MA,
\* EffectiveMass = (sum of GroupA masses)/MA^2 + 1 and
\* loadVelocity' - loadVelocity = (NetForce/EffectiveMass)*dt
reducedModel ==
    LET N == Len(prevSandbox.movablePulleys)
        sumA == SeqSum(Masses(loadGroupA(prevSandbox)))
        MA == 2 * N
        NetForce == prevSandbox.effortForce - Div(sumA * GRAVITY, MA)
        EffectiveMass == Div(sumA, MA * MA) + MassScale
    IN  /\ lastScalar.MA = MA
        /\ lastScalar.NetForce = NetForce
        /\ lastScalar.EffectiveMass = EffectiveMass
        /\ sandboxState.loadVelocity - prevSandbox.loadVelocity
               = Div(NetForce, EffectiveMass) * lastDt

\* C8 as stated: the reduced case, broken or not.
C8_AsStated == reducedCase => reducedModel

\* C8 amended: in the reduced case with the rope intact the step uses MA = 2N, that
\* NetForce and that EffectiveMass, and the velocity grows by (NetForce/EffectiveMass)*dt;
\* for one movable pulley, effortForce 50 and a 10 kg GroupA load NetForce is 0.95 N
\* and EffectiveMass 3.5 kg.  A broken rope keeps the system at rest instead.
C8_ReducedModel ==
    /\ (reducedCase /\ ~prevSandbox.isBroken) => reducedModel
    /\ (reducedCase /\ ~prevSandbox.isBroken
          /\ Len(prevSandbox.movablePulleys) = 1
          /\ prevSandbox.effortForce = Newton(50)
          /\ Masses(loadGroupA(prevSandbox)) = <<Kg(10)>>) =>
           /\ lastScalar.NetForce * 100 = 95 * ForceScale
           /\ lastScalar.EffectiveMass * 10 = 35 * MassScale
    /\ (reducedCase /\ prevSandbox.isBroken) =>
           sandboxState.loadVelocity = prevSandbox.loadVelocity

\* the hoist of the scenario after a 16 ms tick: 0.271 m/s^2 for 16 ms
C8_Witness ==
    /\ reducedCase /\ ~prevSandbox.isBroken
    /\ prevSandbox.effortForce = Newton(50)
    /\ Masses(loadGroupA(prevSandbox)) = <<Kg(10)>>
    /\ lastDt = 16
    /\ sandboxState.loadVelocity = 271 * 16

\* ------------------------------------------------------------ C9
\* C9: in REAL mode, on a tick from an intact state that computes a tension
\* tension1 = mass1*(g + acceleration) or tension2 = mass2*(g - acceleration) above
\* ropeMaxTension, the returned state is broken on that same tick; and every step
\* taken from a broken state returns tension1 = 0 and tension2 = 0.
C9_Breakage ==
    /\ (intactAtwoodTick /\ lastMode = REAL /\ lastExit = "normal"
          /\ (\/ prevAtwood.mass1 * (GRAVITY + atwoodState.acceleration)
                    > prevAtwood.ropeMaxTension
              \/ prevAtwood.mass2 * (GRAVITY - atwoodState.acceleration)
                    > prevAtwood.ropeMaxTension)) =>
           atwoodState.isBroken
    /\ (atwoodTicked /\ prevAtwood.isBroken) =>
           /\ atwoodState.tension1 = 0
           /\ atwoodState.tension2 = 0
           /\ atwoodState.isBroken

\* the step after the breaking tick: the state it was given is broken and still holds
\* the tension that broke the rope
C9_Witness ==
    /\ atwoodTicked /\ prevAtwood.isBroken
    /\ (\/ prevAtwood.tension1 > prevAtwood.ropeMaxTension
        \/ prevAtwood.tension2 > prevAtwood.ropeMaxTension)
    /\ atwoodState.tension1 = 0 /\ atwoodState.tension2 = 0
    /\ atwoodState.isBroken


\* ------------------------------------------------------------ C10
\* Repeated stepping of a balanced machine with a fixed dt and mode: the animation
\* loop of App.tsx asks for the next frame at the end of every frame, so the tick
\* keeps being taken while the simulation is not paused.
MaxBalanceSteps == 320
\* the number of ticks after which every run has settled
BalanceSettleSteps == 250
\* the tolerances: 1 mm and 0.01 m/s^2
BalanceTolY == 1000
BalanceTolAcc == 10

\* the fixed dt of a run, in ms
BalanceDts == {25, 50}

\* mass (both sides), y1, totalRopeLength, velocity
BalanceScenes ==
    {<<Kg(2), 200000, 5000000, 0>>, <<Kg(2), 4800000, 5000000, 0>>,
     <<Kg(2), 2000000, 5000000, 2000000>>, <<Kg(5), 200000, 5000000, 0>>,
     <<Kg(5), 3250000, 3500000, -2000000>>, <<Kg(2), 500000, 1000000, 0>>}

BalanceInits ==
    {[INITIAL_ATWOOD EXCEPT
         !.mass1 = b[1], !.mass2 = b[1], !.totalRopeLength = b[3],
         !.y1 = b[2], !.y2 = b[3] - b[2],
         !.initialY1 = b[2], !.initialY2 = b[3] - b[2],
         !.velocity = b[4]] : b \in BalanceScenes}

InitBalance ==
    /\ atwoodState \in BalanceInits
    /\ sandboxState = INITIAL_SANDBOX
    /\ activeTab = ATWOOD
    /\ steps = 0
    /\ lastOp = "init"
    /\ lastDt \in BalanceDts
    /\ lastMode \in RealityMode
    /\ prevAtwood = atwoodState
    /\ prevSandbox = sandboxState
    /\ schedulerRunning

\* animate, the Atwood branch, with the dt and the mode of the run
BalanceTick ==
    /\ activeTab = ATWOOD /\ ~isComplexAtwood
    /\ steps < MaxBalanceSteps
    /\ atwoodState' = updateAtwoodPhysics(atwoodState, lastDt, lastMode)
    /\ prevAtwood' = atwoodState
    /\ lastOp' = "atwood"
    /\ steps' = steps + 1
    /\ UNCHANGED <<sandboxState, activeTab, prevSandbox, lastDt, lastMode, schedVars>>

SpecBalance == InitBalance /\ [][BalanceTick]_vars /\ WF_vars(BalanceTick)

nearBalance ==
    /\ Abs(atwoodState.y1 - Div(atwoodState.totalRopeLength, 2)) <= BalanceTolY
    /\ Abs(atwoodState.acceleration) <= BalanceTolAcc

settledOrBroken == nearBalance \/ (lastMode = REAL /\ atwoodState.isBroken)

MaxRopes == 3
MaxTopologySteps == 1

TopologyRopes ==
    <<Rope("rope-1", "load-1", "load-2", "direct", 0, 0),
      Rope("rope-2", "load-2", "load-3", "direct", 0, 0),
      Rope("rope-3", "load-3", "load-1", "direct", 0, 0),
      Rope("rope-4", "load-1", "fixed-1", "pulley", 0, -1),
      Rope("rope-5", "fixed-1", "load-2", "pulley", 1, 0),
      Rope("rope-6", "load-3", "gone-1", "direct", 0, 0),
      Rope("rope-7", "movable-1", "load-1", "direct", 0, 0),
      Rope("rope-8", "anchor-1", "movable-1", "direct", 0, 0),
      Rope("rope-9", "movable-1", "fixed-1", "pulley", 1, -1),
      Rope("rope-10", "anchor-1", "load-3", "direct", 0, 0),
      Rope("rope-11", "load-2", "fixed-1", "direct", UNDEFINED, UNDEFINED),
      Rope("rope-12", "load-3", "fixed-1", "direct", 0, 0)>>

\* the chosen segments in drawing order
RECURSIVE ropesOf(_, _)
ropesOf(chosen, i) ==
    IF i > Len(TopologyRopes) THEN <<>>
    ELSE (IF i \in chosen THEN <<TopologyRopes[i]>> ELSE <<>>) \o ropesOf(chosen, i + 1)

TopologyGraph(hasFixed, hasMovable, hasLoads, chosen) ==
    [INITIAL_SANDBOX EXCEPT
        !.fixedPulleys = IF hasFixed THEN <<Pulley("fixed-1", 400000, 50)>> ELSE <<>>,
        !.movablePulleys = IF hasMovable THEN <<Pulley("movable-1", 400000, 250)>>
                           ELSE <<>>,
        !.anchors = <<Anchor("anchor-1", 50000, 50)>>,
        !.loads = IF hasLoads
                  THEN <<Load("load-1", 5, "#3b82f6", 350000, 350),
                         Load("load-2", 3, "#ef4444", 450000, 350),
                         Load("load-3", 2, "#10b981", 400000, 450)>>
                  ELSE <<>>,
        !.ropeSegments = ropesOf(chosen, 1)]

TopologyInits ==
    {[TopologyGraph(hasFixed, hasMovable, hasLoads, chosen)
         EXCEPT !.effortForce = e] :
        hasFixed \in BOOLEAN, hasMovable \in BOOLEAN, hasLoads \in BOOLEAN,
        chosen \in {S \in SUBSET (1..Len(TopologyRopes)) : Cardinality(S) <= MaxRopes},
        e \in {0, Newton(50)}}

InitTopology ==
    /\ atwoodState = INITIAL_ATWOOD
    /\ sandboxState \in TopologyInits
    /\ activeTab = SANDBOX
    /\ steps = 0
    /\ lastOp = "init"
    /\ lastDt = 0
    /\ lastMode = IDEAL
    /\ prevAtwood = atwoodState
    /\ prevSandbox = sandboxState
    /\ schedulerRunning

\* animate, the sandbox branch, on a drawn graph
TopologyTick ==
    /\ activeTab = SANDBOX
    /\ steps < MaxTopologySteps
    /\ \E dt \in {16, 50}, mode \in RealityMode :
        /\ sandboxState' = updateSandboxPhysics(sandboxState, dt, mode)
        /\ lastDt' = dt
        /\ lastMode' = mode
    /\ prevSandbox' = sandboxState
    /\ lastOp' = "sandbox"
    /\ steps' = steps + 1
    /\ UNCHANGED <<atwoodState, activeTab, prevAtwood, schedVars>>

SpecTopology == InitTopology /\ [][TopologyTick]_vars

\* the groups the last tick resolved
lastGroupA == loadGroupA(prevSandbox)
lastGroupB == loadGroupB(prevSandbox)
NoRepeat(seq) == \A i, j \in 1..Len(seq) : seq[i].id = seq[j].id => i = j

\* ------------------------------------------------------------ C11
\* C11: for every sandbox graph, with or without movable pulleys, with cycles and
\* with segments that reference a missing node, the GroupA and GroupB that a tick
\* resolves are disjoint and neither holds the same load twice.
C11_GroupsDisjoint ==
    sandboxTicked =>
        /\ IdSet(lastGroupA) \cap IdSet(lastGroupB) = {}
        /\ NoRepeat(lastGroupA)
        /\ NoRepeat(lastGroupB)

\* a tick on a graph with a movable pulley and a segment to a missing node, loads on
\* both sides
C11_Witness ==
    /\ sandboxTicked
    /\ Len(prevSandbox.movablePulleys) > 0
    /\ "rope-6" \in IdSet(prevSandbox.ropeSegments)
    /\ lastGroupA # <<>>
    /\ lastGroupB # <<>>


\* ------------------------------------------------------------ C12
\* the node ids joined to the ids of `seen` by a path of rope segments
RECURSIVE ropeReach(_, _)
ropeReach(state, seen) ==
    LET next == seen
                \cup {state.ropeSegments[i].toId :
                        i \in {j \in 1..Len(state.ropeSegments) :
                                 state.ropeSegments[j].fromId \in seen}}
                \cup {state.ropeSegments[i].fromId :
                        i \in {j \in 1..Len(state.ropeSegments) :
                                 state.ropeSegments[j].toId \in seen}}
    IN  IF next = seen THEN seen ELSE ropeReach(state, next)

supportIds(state) ==
    IdSet(state.fixedPulleys) \cup IdSet(state.movablePulleys) \cup IdSet(state.anchors)

\* no rope path from the load to a fixed pulley, a movable pulley or an anchor
unsupported(state, id) == ropeReach(state, {id}) \cap supportIds(state) = {}

\* C12: a load with no rope path to any fixed pulley, movable pulley or anchor is in
\* neither GroupA nor GroupB of the tick, with and without movable pulleys, and its
\* mass is in neither MassLoad nor MassCounter.
C12_FreeBody ==
    sandboxTicked =>
        \A i \in 1..Len(prevSandbox.loads) :
            unsupported(prevSandbox, prevSandbox.loads[i].id) =>
                /\ prevSandbox.loads[i].id \notin IdSet(lastGroupA)
                /\ prevSandbox.loads[i].id \notin IdSet(lastGroupB)

\* the part of C12 the code keeps: graphs with a movable pulley, and loads with no
\* rope at all
C12_FreeBodyMovable ==
    sandboxTicked =>
        \A i \in 1..Len(prevSandbox.loads) :
            /\ unsupported(prevSandbox, prevSandbox.loads[i].id)
            /\ \/ Len(prevSandbox.movablePulleys) > 0
               \/ ~isRoped(prevSandbox, prevSandbox.loads[i].id)
            => /\ prevSandbox.loads[i].id \notin IdSet(lastGroupA)
               /\ prevSandbox.loads[i].id \notin IdSet(lastGroupB)


\* ------------------------------------------------------------ C13
\* a scene with no loads, or with neither a fixed nor a movable pulley
degenerate(state) ==
    \/ Len(state.loads) = 0
    \/ Len(state.fixedPulleys) = 0 /\ Len(state.movablePulleys) = 0

\* every movable pulley and every rope-connected load keeps its y over the last tick
sameHeights ==
    /\ Len(sandboxState.movablePulleys) = Len(prevSandbox.movablePulleys)
    /\ Len(sandboxState.loads) = Len(prevSandbox.loads)
    /\ \A i \in 1..Len(prevSandbox.movablePulleys) :
           sandboxState.movablePulleys[i].y = prevSandbox.movablePulleys[i].y
    /\ \A i \in 1..Len(prevSandbox.loads) :
           isRoped(prevSandbox, prevSandbox.loads[i].id) =>
               sandboxState.loads[i].y = prevSandbox.loads[i].y

\* C13: a tick on a scene with no loads, or with no fixed and no movable pulley, taken
\* at loadVelocity = 0 in either mode and for every effortForce, returns
\* loadVelocity = 0, the same loadPosition, and the same y for every movable pulley
\* and every rope-connected load.
C13_DegenerateAtRest ==
    sandboxTicked /\ degenerate(prevSandbox) /\ prevSandbox.loadVelocity = 0 =>
        /\ sandboxState.loadVelocity = 0
        /\ sandboxState.loadPosition = prevSandbox.loadPosition
        /\ sameHeights


\* ------------------------------------------------------------ sandbox runs
\* The application on the sandbox tab, from a scene of SandboxInits
InitSandbox ==
    /\ atwoodState = INITIAL_ATWOOD
    /\ sandboxState \in SandboxInits
    /\ activeTab = SANDBOX
    /\ steps = 0
    /\ lastOp = "init"
    /\ lastDt = 0
    /\ lastMode = IDEAL
    /\ prevAtwood = atwoodState
    /\ prevSandbox = sandboxState
    /\ schedulerRunning

SpecSandbox == InitSandbox /\ [][SandboxTick]_vars

\* ------------------------------------------------------------ C14
\* the fields a sandbox tick may write
SteppedFields == {"loads", "movablePulleys", "loadVelocity", "loadPosition", "isBroken"}
SteppedLoadFields == {"x", "y", "vx", "vy"}
SteppedPulleyFields == {"x", "y", "vx"}

\* b has the fields of a, with the same values outside `stepped`
sameBut(a, b, stepped) ==
    /\ DOMAIN a = DOMAIN b
    /\ \A f \in DOMAIN a \ stepped : a[f] = b[f]

\* C14: a tick of updateSandboxPhysics leaves fixedPulleys, anchors, ropeSegments,
\* effortForce, friction, ropeMaxTension, airResistance and the authoring fields as
\* they were, keeps the number, order, id, mass and color of the loads and the number,
\* order, id and radius of the movable pulleys, and writes only the loads' x, y, vx,
\* vy, the movable pulleys' x, y, vx, and loadVelocity, loadPosition and isBroken.
C14_Frame ==
    sandboxTicked =>
        /\ sameBut(prevSandbox, sandboxState, SteppedFields)
        /\ Len(sandboxState.loads) = Len(prevSandbox.loads)
        /\ \A i \in 1..Len(prevSandbox.loads) :
               sameBut(prevSandbox.loads[i], sandboxState.loads[i], SteppedLoadFields)
        /\ Len(sandboxState.movablePulleys) = Len(prevSandbox.movablePulleys)
        /\ \A i \in 1..Len(prevSandbox.movablePulleys) :
               sameBut(prevSandbox.movablePulleys[i], sandboxState.movablePulleys[i],
                       SteppedPulleyFields)

\* a tick that moved a roped load, a free load or a movable pulley and changed the
\* rope feed
C14_Witness ==
    /\ sandboxTicked
    /\ sandboxState.loadVelocity # prevSandbox.loadVelocity
    /\ sandboxState.loadPosition # prevSandbox.loadPosition
    /\ \E i \in 1..Len(prevSandbox.loads) :
           sandboxState.loads[i].y # prevSandbox.loads[i].y
    /\ \E i \in 1..Len(prevSandbox.movablePulleys) :
           sandboxState.movablePulleys[i].y # prevSandbox.movablePulleys[i].y


\* ------------------------------------------------------------ C15
\* C15: after every step of updateSandboxPhysics that is not the isDragging exit, with
\* any input, dt and mode, the returned loadVelocity is within [-50, 50] m/s.
C15_VelocityBound ==
    sandboxTicked /\ ~prevSandbox.isDragging =>
        /\ sandboxState.loadVelocity <= LV_MAX
        /\ sandboxState.loadVelocity >= -LV_MAX

\* a tick whose integrated velocity was above 50 m/s and came back as 50 m/s
C15_Witness ==
    /\ sandboxTicked /\ ~prevSandbox.isDragging
    /\ prevSandbox.loadVelocity < LV_MAX
    /\ ~lastScalar.isBalanced
    /\ prevSandbox.loadVelocity + accelerationOf(prevSandbox, lastScalar) * lastDt > LV_MAX
    /\ sandboxState.loadVelocity = LV_MAX


\* ------------------------------------------------------------ C16
\* the rope feed of the last tick before the boundary test, and its share for GroupA
lastDeltaRope == deltaRopeOf(lastScalar.preVetoVelocity, lastDt)
lastDispA == -Div(lastDeltaRope, lastScalar.MA)

\* some GroupA load or movable pulley would cross the ceiling rising, or some load of
\* either group or movable pulley would cross the floor descending
wouldCross ==
    \/ /\ lastDispA < 0
       /\ \/ \E i \in 1..Len(lastGroupA) :
                 lastGroupA[i].y + lastDispA < lastScalar.ceilingY
          \/ \E i \in 1..Len(prevSandbox.movablePulleys) :
                 prevSandbox.movablePulleys[i].y + lastDispA < lastScalar.ceilingY
    \/ /\ lastDispA > 0
       /\ \/ \E i \in 1..Len(lastGroupA) : lastGroupA[i].y + lastDispA > FLOOR_Y
          \/ \E i \in 1..Len(prevSandbox.movablePulleys) :
                 prevSandbox.movablePulleys[i].y + lastDispA > FLOOR_Y
    \/ /\ lastDeltaRope > 0
       /\ \E i \in 1..Len(lastGroupB) : lastGroupB[i].y + lastDeltaRope > FLOOR_Y

vetoedTick == sandboxTicked /\ ~prevSandbox.isBroken /\ wouldCross

\* every movable pulley and every load of GroupA and GroupB kept its y over the tick
groupsHeld ==
    /\ \A i \in 1..Len(prevSandbox.movablePulleys) :
           sandboxState.movablePulleys[i].y = prevSandbox.movablePulleys[i].y
    /\ \A i \in 1..Len(prevSandbox.loads) :
           prevSandbox.loads[i].id \in IdSet(lastGroupA) \cup IdSet(lastGroupB) =>
               sandboxState.loads[i].y = prevSandbox.loads[i].y

\* C16: the boundary veto is a hard stop: on a tick from an intact state where some
\* GroupA load or movable pulley would cross the ceiling while rising, or some load of
\* GroupA or GroupB or movable pulley would cross the floor (550) while descending,
\* the returned loadVelocity is 0, loadPosition is unchanged, and every movable pulley
\* and every load of GroupA and GroupB has the y it had.
C16_AsStated ==
    vetoedTick =>
        /\ sandboxState.loadVelocity = 0
        /\ sandboxState.loadPosition = prevSandbox.loadPosition
        /\ groupsHeld


\* y held within [ceilingY, floorY]
heldAt(y) == Max(lastScalar.ceilingY, Min(FLOOR_Y, y))

groupsClamped ==
    /\ \A i \in 1..Len(prevSandbox.movablePulleys) :
           sandboxState.movablePulleys[i].y = heldAt(prevSandbox.movablePulleys[i].y)
    /\ \A i \in 1..Len(prevSandbox.loads) :
           prevSandbox.loads[i].id \in IdSet(lastGroupA) \cup IdSet(lastGroupB) =>
               sandboxState.loads[i].y = heldAt(prevSandbox.loads[i].y)

\* C16, amended: on such a tick the returned loadVelocity is 0 and loadPosition is
\* unchanged; when the returned state is intact, every movable pulley and every load
\* of GroupA and GroupB has its y held within [ceilingY, 550], which is the y it had
\* when that was within the range.
C16_BoundaryVeto ==
    vetoedTick =>
        /\ sandboxState.loadVelocity = 0
        /\ sandboxState.loadPosition = prevSandbox.loadPosition
        /\ ~sandboxState.isBroken => groupsClamped

\* a vetoed tick of a moving, intact system that stays intact, with a load above the
\* ceiling line
C16_Witness ==
    /\ vetoedTick
    /\ lastScalar.preVetoVelocity # 0
    /\ ~sandboxState.isBroken
    /\ \E i \in 1..Len(prevSandbox.loads) :
           /\ prevSandbox.loads[i].id \in IdSet(lastGroupA)
           /\ prevSandbox.loads[i].y < lastScalar.ceilingY
           /\ sandboxState.loads[i].y = lastScalar.ceilingY


\* ------------------------------------------------------------ C17
\* the static net force of the last Atwood tick, before friction and drag
lastStaticForce == drivingForce(prevAtwood) + centeringForce(prevAtwood)

\* the velocity the last tick integrated, before the zero-crossing check
lastIntegratedVelocity ==
    prevAtwood.velocity
        + Div(atwoodNetForce(prevAtwood, lastMode), totalInertialMass(prevAtwood)) * lastDt

\* the rope was moving and the integrated velocity has another sign
zeroCrossing ==
    /\ intactAtwoodTick
    /\ Abs(prevAtwood.velocity) > V_EPS
    /\ Sign(lastIntegratedVelocity) # Sign(prevAtwood.velocity)

\* C17: Atwood stiction: on an intact tick with |velocity| > 0.001 whose integrated
\* velocity has a different sign than velocity, if the static net force before
\* friction and drag, drivingForce + centeringForce, is at most frictionForce in
\* magnitude, the step returns velocity = 0 and acceleration = 0.
C17_Stiction ==
    zeroCrossing /\ Abs(lastStaticForce) <= atwoodFrictionForce(prevAtwood) =>
        /\ atwoodState.velocity = 0
        /\ atwoodState.acceleration = 0

\* what the code tests instead: the net force after friction and drag
C17_StictionPostFriction ==
    zeroCrossing
        /\ Abs(atwoodNetForce(prevAtwood, lastMode)) <= atwoodFrictionForce(prevAtwood) =>
        /\ atwoodState.velocity = 0
        /\ atwoodState.acceleration = 0


\* ------------------------------------------------------------ C18
\* frictionCoeff * (mass1 + mass2) * g * FRICTION_SCALE of the state the tick began in
lastFrictionBound ==
    Div(prevAtwood.frictionCoeff * (prevAtwood.mass1 + prevAtwood.mass2)
            * GRAVITY * FRICTION_SCALE,
        CoeffScale * 10)

heldAtRest ==
    /\ intactAtwoodTick
    /\ prevAtwood.velocity = 0
    /\ Abs(lastStaticForce) <= lastFrictionBound

\* The machine after the Initial Right Height slider was moved in the middle of a
\* run: y2 and initialY2 take the slider's value, totalRopeLength becomes
\* initialY1 + value, and y1 stays where the run had brought it, which may be below
\* the new lower limit.
ResizedInits ==
    {[a EXCEPT !.initialY1 = 2000000, !.initialY2 = v, !.y2 = v,
               !.totalRopeLength = 2000000 + v] :
        a \in {b \in AtwoodInits : b.ropeMaxTension = Newton(50) /\ b.velocity \in {0, 2000}},
        v \in {500000}}

InitResized ==
    /\ atwoodState \in ResizedInits
    /\ sandboxState = INITIAL_SANDBOX
    /\ activeTab = ATWOOD
    /\ steps = 0
    /\ lastOp = "init"
    /\ lastDt = 0
    /\ lastMode = IDEAL
    /\ prevAtwood = atwoodState
    /\ prevSandbox = sandboxState
    /\ schedulerRunning

SpecResized == InitResized /\ [][AtwoodTick]_vars

\* y1 brought within [0.2, totalRopeLength - 0.2]
withinLimits(state) ==
    IF state.y1 < Y_MARGIN THEN Y_MARGIN
    ELSE IF state.y1 > ropeLenOf(state) - Y_MARGIN THEN ropeLenOf(state) - Y_MARGIN
    ELSE state.y1

lastNewY1 == atwoodNewY1(prevAtwood, lastDt, lastMode)

clampedTick ==
    /\ intactAtwoodTick
    /\ \/ lastNewY1 < Y_MARGIN
       \/ lastNewY1 > ropeLenOf(prevAtwood) - Y_MARGIN

\* C19: a tick that ends in the boundary clamp returns velocity = 0, acceleration = 0
\* and y1 at the limit it ran into, and leaves tension1, tension2, isBroken and time
\* as they were in the input: no breakage is evaluated on that tick, in REAL mode and
\* with a weight above ropeMaxTension too.
C19_ClampFrame ==
    clampedTick =>
        /\ atwoodState.velocity = 0
        /\ atwoodState.acceleration = 0
        /\ atwoodState.y1 = IF lastNewY1 < Y_MARGIN THEN Y_MARGIN
                            ELSE ropeLenOf(prevAtwood) - Y_MARGIN
        /\ atwoodState.tension1 = prevAtwood.tension1
        /\ atwoodState.tension2 = prevAtwood.tension2
        /\ atwoodState.isBroken = prevAtwood.isBroken
        /\ atwoodState.time = prevAtwood.time

\* a clamp tick of positive length in REAL mode, after the clock has run, with a
\* weight above the rope's limit: the returned state is intact
C19_Witness ==
    /\ clampedTick
    /\ lastMode = REAL /\ lastDt > 0
    /\ prevAtwood.time > 0
    /\ prevAtwood.mass2 * GRAVITY > prevAtwood.ropeMaxTension
    /\ ~atwoodState.isBroken


\* ------------------------------------------------------------ C20
\* angularVelocity = velocity / pulleyRadius in the returned state, and the clock has
\* advanced by dt
spinAndClock ==
    /\ atwoodState.angularVelocity
           = Div(atwoodState.velocity * RadiusScale, atwoodState.pulleyRadius)
    /\ atwoodState.time = prevAtwood.time + lastDt

\* C20: after every step of updateAtwoodPhysics from an intact state the returned
\* state has angularVelocity = velocity / pulleyRadius and time = input time + dt.
C20_AsStated == intactAtwoodTick => spinAndClock

\* C20, amended: that holds after every step from an intact state that does not end
\* in the boundary clamp; a clamp tick returns angularVelocity and time as they were
\* in the input.
C20_SpinAndClock ==
    intactAtwoodTick =>
        IF clampedTick
        THEN /\ atwoodState.angularVelocity = prevAtwood.angularVelocity
             /\ atwoodState.time = prevAtwood.time
        ELSE spinAndClock

\* a tick of positive length that is not clamped and returns a moving state
C20_Witness ==
    /\ intactAtwoodTick /\ ~clampedTick
    /\ lastDt > 0
    /\ atwoodState.velocity # 0
    /\ atwoodState.angularVelocity # atwoodState.velocity
    /\ spinAndClock


\* ------------------------------------------------------------ C21
brokenAtwoodTick == atwoodTicked /\ prevAtwood.isBroken

\* tensions, acceleration and velocity reported as zero, both masses at or above the
\* floor value 4.5
brokenReport ==
    /\ atwoodState.tension1 = 0 /\ atwoodState.tension2 = 0
    /\ atwoodState.acceleration = 0 /\ atwoodState.velocity = 0
    /\ atwoodState.y1 <= BROKEN_FLOOR /\ atwoodState.y2 <= BROKEN_FLOOR

\* C21: a step from a broken Atwood state, with any dt >= 0 and mode, returns
\* tension1 = tension2 = 0, acceleration = 0 and velocity = 0, y1 <= 4.5 and
\* y2 <= 4.5, and moves no mass upward (y1' >= y1 and y2' >= y2) when the input
\* velocity is 0.
C21_AsStated ==
    brokenAtwoodTick =>
        /\ brokenReport
        /\ prevAtwood.velocity = 0 =>
               /\ atwoodState.y1 >= prevAtwood.y1
               /\ atwoodState.y2 >= prevAtwood.y2

\* Settings of the Atwood sliders with a light left mass and the strongest air
\* resistance: mass1 0.1 kg, airResistance 5.0, ropeMaxTension 10 N.
DragInits ==
    {[INITIAL_ATWOOD EXCEPT
         !.mass1 = 2, !.mass2 = m2, !.pulleyMass = Kg(20),
         !.airResistance = 50, !.ropeMaxTension = Newton(10),
         !.y1 = y, !.y2 = 5000000 - y, !.initialY1 = y, !.initialY2 = 5000000 - y,
         !.frictionCoeff = f] :
        m2 \in {Kg(10), Kg(20)}, y \in {1000000, 2500000, 4000000}, f \in {0, 5}}

InitDrag ==
    /\ atwoodState \in DragInits
    /\ sandboxState = INITIAL_SANDBOX
    /\ activeTab = ATWOOD
    /\ steps = 0
    /\ lastOp = "init"
    /\ lastDt = 0
    /\ lastMode = IDEAL
    /\ prevAtwood = atwoodState
    /\ prevSandbox = sandboxState
    /\ schedulerRunning

SpecDrag == InitDrag /\ [][AtwoodTick]_vars

\* The statement restricted to ticks without drag and to masses above the floor
\* value: there the broken branch moves no mass upward.
C21_BrokenStepIdeal ==
    (brokenAtwoodTick /\ lastMode = IDEAL /\ prevAtwood.velocity = 0) =>
        /\ brokenReport
        /\ atwoodState.y1 >= Min(prevAtwood.y1, BROKEN_FLOOR)
        /\ atwoodState.y2 >= Min(prevAtwood.y2, BROKEN_FLOOR)

\* a broken REAL tick from rest whose drag term exceeds the gain g*dt: mass 1,
\* above the floor value, is moved upward
C21_DragOvershoot ==
    /\ brokenAtwoodTick /\ lastMode = REAL
    /\ prevAtwood.velocity = 0
    /\ prevAtwood.y1 < BROKEN_FLOOR
    /\ atwoodState.y1 < prevAtwood.y1

\* ------------------------------------------------------------ C22
intactRealTick == sandboxTicked /\ lastMode = REAL /\ ~prevSandbox.isBroken

\* the acceleration of the tick after the stiction correction and the boundary veto
lastFinalAcceleration ==
    IF sandboxStuck(prevSandbox, lastDt, lastScalar) \/ lastScalar.boundaryHit
    THEN 0
    ELSE Div(lastScalar.NetForce, lastScalar.EffectiveMass)

lastStaticTension ==
    Div(lastScalar.ForceLoad, lastScalar.MA) + Div(lastScalar.frictionForce, 2)

lastEstimatedTension ==
    lastStaticTension + lastScalar.MassLoad * Abs(lastFinalAcceleration)

\* C22: a REAL step from an intact sandbox state returns isBroken = TRUE exactly
\* when ForceLoad/MA + MassLoad*|acceleration| + frictionForce/2 exceeds
\* ropeMaxTension or ForcePull exceeds ropeMaxTension, the acceleration being the
\* one left by the stiction correction and the boundary veto of the same tick;
\* rope segments play no part in the test.
C22_BreakageTest ==
    intactRealTick =>
        (sandboxState.isBroken <=>
            \/ lastEstimatedTension > prevSandbox.ropeMaxTension
            \/ lastScalar.ForcePull > prevSandbox.ropeMaxTension)

\* a breaking tick that the acceleration term decides: the static part and the
\* pull are both within the limit
C22_Witness ==
    /\ intactRealTick
    /\ sandboxState.isBroken
    /\ lastStaticTension <= prevSandbox.ropeMaxTension
    /\ lastScalar.ForcePull <= prevSandbox.ropeMaxTension
    /\ lastFinalAcceleration # 0

\* ------------------------------------------------------------ C23
brokenSandboxTick == sandboxTicked /\ ~prevSandbox.isDragging /\ sandboxState.isBroken

\* C23: whenever a sandbox step returns isBroken = TRUE, on the breaking tick and on
\* every later one, it returns loadVelocity = 0 and the loadPosition it was given,
\* every load, roped or not, is the free-fall update of the load it was, and every
\* movable pulley is at min(550, y + 100*dt).
C23_BrokenTick ==
    brokenSandboxTick =>
        /\ sandboxState.loadVelocity = 0
        /\ sandboxState.loadPosition = prevSandbox.loadPosition
        /\ Len(sandboxState.loads) = Len(prevSandbox.loads)
        /\ \A i \in 1..Len(prevSandbox.loads) :
               sandboxState.loads[i] = freeFallLoad(prevSandbox.loads[i], lastDt, lastMode)
        /\ Len(sandboxState.movablePulleys) = Len(prevSandbox.movablePulleys)
        /\ \A i \in 1..Len(prevSandbox.movablePulleys) :
               sandboxState.movablePulleys[i].y =
                   Min(FLOOR_Y, prevSandbox.movablePulleys[i].y + BROKEN_DRIFT * lastDt)

\* a tick of positive length that breaks a moving system holding a movable pulley
\* and a roped load above the floor
C23_Witness ==
    /\ brokenSandboxTick /\ ~prevSandbox.isBroken
    /\ lastDt > 0
    /\ prevSandbox.loadVelocity # 0
    /\ prevSandbox.movablePulleys # <<>>
    /\ \E i \in 1..Len(prevSandbox.loads) :
           /\ isRoped(prevSandbox, prevSandbox.loads[i].id)
           /\ sandboxState.loads[i].y > prevSandbox.loads[i].y

\* ------------------------------------------------------------ dragging
\* id.startsWith(prefix)
StartsWith(id, prefix) ==
    /\ Len(id) >= Len(prefix)
    /\ SubSeq(id, 1, Len(prefix)) = prefix

movedTo(seq, id, x, y) ==
    [i \in 1..Len(seq) |-> IF seq[i].id = id THEN [seq[i] EXCEPT !.x = x, !.y = y]
                           ELSE seq[i]]
movedAcross(seq, id, x) ==
    [i \in 1..Len(seq) |-> IF seq[i].id = id THEN [seq[i] EXCEPT !.x = x] ELSE seq[i]]

\* App.tsx lines 246-254
handleSandboxMove(prev, id, x, y) ==
    IF StartsWith(id, "fixed")
    THEN [prev EXCEPT !.fixedPulleys = movedTo(prev.fixedPulleys, id, x, y)]
    ELSE IF StartsWith(id, "movable")
    THEN [prev EXCEPT !.movablePulleys = movedAcross(prev.movablePulleys, id, x)]
    ELSE IF StartsWith(id, "load")
    THEN [prev EXCEPT !.loads = movedTo(prev.loads, id, x, y)]
    ELSE IF StartsWith(id, "anchor")
    THEN [prev EXCEPT !.anchors = movedTo(prev.anchors, id, x, y)]
    ELSE prev

\* the objects drawn on the canvas
nodeIds(state) ==
    IdSet(state.fixedPulleys) \cup IdSet(state.movablePulleys)
        \cup IdSet(state.loads) \cup IdSet(state.anchors)

\* Drop heights of a drag: the top row, and low on the canvas near the floor
MoveYs == {Px(50), Px(540)}

\* SandboxCanvas.handleMouseMove on a held fixed pulley, dragged straight up or down
SandboxMove ==
    /\ ~(activeTab = ATWOOD /\ ~isComplexAtwood)
    /\ \E i \in 1..Len(sandboxState.fixedPulleys), y \in MoveYs :
           sandboxState' = handleSandboxMove(sandboxState, sandboxState.fixedPulleys[i].id,
                                             sandboxState.fixedPulleys[i].x, y)
    /\ prevSandbox' = sandboxState
    /\ lastOp' = "move"
    /\ UNCHANGED <<atwoodState, activeTab, steps, lastDt, lastMode, prevAtwood, schedVars>>

MoveInits ==
    {[g EXCEPT !.effortForce = IF g.effortForce = 0 THEN 0 ELSE Newton(50)] :
        g \in {BuiltAtwood, BuiltHoist}}

InitMove ==
    /\ atwoodState = INITIAL_ATWOOD
    /\ sandboxState \in MoveInits
    /\ activeTab = SANDBOX
    /\ steps = 0
    /\ lastOp = "init"
    /\ lastDt = 0
    /\ lastMode = IDEAL
    /\ prevAtwood = atwoodState
    /\ prevSandbox = sandboxState
    /\ schedulerRunning

NextMove == SandboxTick \/ SandboxMove

SpecMove == InitMove /\ [][NextMove]_vars

\* ------------------------------------------------------------ C24
contained(state, y) == ceilingYOf(state) <= y /\ y <= FLOOR_Y

\* C24: after every step that leaves the system intact, every rope-connected load
\* and every movable pulley has ceiling <= y <= floor, wherever the fixed pulleys
\* have been dragged.
C24_Contained ==
    (sandboxTicked /\ ~sandboxState.isBroken) =>
        /\ \A i \in 1..Len(sandboxState.loads) :
               isRoped(sandboxState, sandboxState.loads[i].id)
                   => contained(sandboxState, sandboxState.loads[i].y)
        /\ \A i \in 1..Len(sandboxState.movablePulleys) :
               contained(sandboxState, sandboxState.movablePulleys[i].y)

\* The same with the ceiling line at or above the floor line left out.
C24_ContainedAboveFloor ==
    (sandboxTicked /\ ~sandboxState.isBroken /\ ceilingYOf(sandboxState) <= FLOOR_Y) =>
        /\ \A i \in 1..Len(sandboxState.loads) :
               isRoped(sandboxState, sandboxState.loads[i].id)
                   => contained(sandboxState, sandboxState.loads[i].y)
        /\ \A i \in 1..Len(sandboxState.movablePulleys) :
               contained(sandboxState, sandboxState.movablePulleys[i].y)

\* ------------------------------------------------------------ C25
\* the node ids joined to the ids of `seen` by a path of rope segments that enters no
\* id of `blocked`
RECURSIVE ropeReachAvoiding(_, _, _)
ropeReachAvoiding(state, seen, blocked) ==
    LET next == seen
                \cup ({state.ropeSegments[i].toId :
                         i \in {j \in 1..Len(state.ropeSegments) :
                                  state.ropeSegments[j].fromId \in seen}} \ blocked)
                \cup ({state.ropeSegments[i].fromId :
                         i \in {j \in 1..Len(state.ropeSegments) :
                                  state.ropeSegments[j].toId \in seen}} \ blocked)
    IN  IF next = seen THEN seen ELSE ropeReachAvoiding(state, next, blocked)

fixedPointIds(state) == IdSet(state.fixedPulleys) \cup IdSet(state.anchors)

liftedLoadIds(state) ==
    IdSet(state.loads)
        \cap ropeReachAvoiding(state, IdSet(state.movablePulleys), fixedPointIds(state))

pullingLoadIds(state) ==
    (IdSet(state.loads)
        \cap ropeReachAvoiding(state, fixedPointIds(state), IdSet(state.movablePulleys)))
    \ liftedLoadIds(state)

\* C25: with at least one movable pulley, GroupA is exactly the loads that a rope
\* path from some movable pulley reaches without entering a fixed pulley or an
\* anchor, and GroupB is exactly the loads that a rope path from some fixed pulley or
\* anchor reaches without entering a movable pulley, less those of GroupA.
C25_ReachGroups ==
    (sandboxTicked /\ prevSandbox.movablePulleys # <<>>) =>
        /\ IdSet(lastGroupA) = liftedLoadIds(prevSandbox)
        /\ IdSet(lastGroupB) = pullingLoadIds(prevSandbox)
        /\ NoRepeat(lastGroupA) /\ NoRepeat(lastGroupB)

\* a tick on a graph where both groups are non-empty, one load of GroupA is also
\* reached from the fixed side, and a load is joined to the movable pulley only by
\* paths through a fixed pulley or an anchor
C25_Witness ==
    /\ sandboxTicked /\ prevSandbox.movablePulleys # <<>>
    /\ lastGroupA # <<>> /\ lastGroupB # <<>>
    /\ \E id \in IdSet(lastGroupA) :
           id \in ropeReachAvoiding(prevSandbox, fixedPointIds(prevSandbox),
                                    IdSet(prevSandbox.movablePulleys))
    /\ \E id \in IdSet(lastGroupB) :
           id \in ropeReach(prevSandbox, IdSet(prevSandbox.movablePulleys))

\* ------------------------------------------------------------ C26
\* the flag a segment carries at its end on the pulley pid
pulleyEndFlag(r, pid) == IF r.toId = pid THEN r.toSide ELSE r.fromSide

\* the flags at the pulley end of the segments that join a load of `front` to a
\* fixed pulley
fixedEdgeFlags(state, front) ==
    {pulleyEndFlag(state.ropeSegments[i], state.ropeSegments[i].toId) :
        i \in {j \in 1..Len(state.ropeSegments) :
                 /\ state.ropeSegments[j].fromId \in front
                 /\ state.ropeSegments[j].toId \in IdSet(state.fixedPulleys)}}
    \cup
    {pulleyEndFlag(state.ropeSegments[i], state.ropeSegments[i].fromId) :
        i \in {j \in 1..Len(state.ropeSegments) :
                 /\ state.ropeSegments[j].toId \in front
                 /\ state.ropeSegments[j].fromId \in IdSet(state.fixedPulleys)}}

\* the loads one segment away from a load of `front`
loadNeighbours(state, front) ==
    IdSet(state.loads) \cap
        ({state.ropeSegments[i].toId :
            i \in {j \in 1..Len(state.ropeSegments) :
                     state.ropeSegments[j].fromId \in front}}
         \cup {state.ropeSegments[i].fromId :
            i \in {j \in 1..Len(state.ropeSegments) :
                     state.ropeSegments[j].toId \in front}})

\* the pulley-end flags of the segments by which a walk from the loads of `front`
\* through other loads comes to a fixed pulley in the fewest segments; empty when
\* there is no such path
RECURSIVE nearestFlags(_, _, _)
nearestFlags(state, front, seen) ==
    IF front = {} THEN {}
    ELSE IF fixedEdgeFlags(state, front) # {} THEN fixedEdgeFlags(state, front)
    ELSE nearestFlags(state, loadNeighbours(state, front) \ seen,
                      seen \cup loadNeighbours(state, front))

flagsOf(state, id) == nearestFlags(state, {id}, {id})
GroupAFlags == {-1, 0, UNDEFINED}
GroupBFlags == {1}

\* C26: without movable pulleys, a load with a rope path through other loads to a
\* fixed pulley is in exactly one group, chosen by the flag at the pulley end of the
\* segment by which the walk first comes to a fixed pulley: -1, 0 or none is GroupA,
\* 1 is GroupB; loads on the sides -1 and 1 of one pulley are in different groups.
C26_SideGroups ==
    (sandboxTicked /\ prevSandbox.movablePulleys = <<>>) =>
        \A id \in IdSet(prevSandbox.loads) :
            flagsOf(prevSandbox, id) # {} =>
                /\ (id \in IdSet(lastGroupA)) # (id \in IdSet(lastGroupB))
                /\ flagsOf(prevSandbox, id) \subseteq GroupAFlags
                       => id \in IdSet(lastGroupA)
                /\ flagsOf(prevSandbox, id) \subseteq GroupBFlags
                       => id \in IdSet(lastGroupB)
                /\ id \in IdSet(lastGroupA)
                       => flagsOf(prevSandbox, id) \cap GroupAFlags # {}
                /\ id \in IdSet(lastGroupB)
                       => flagsOf(prevSandbox, id) \cap GroupBFlags # {}
                /\ \A other \in IdSet(prevSandbox.loads) :
                       (flagsOf(prevSandbox, id) = {-1}
                            /\ flagsOf(prevSandbox, other) = {1})
                           => /\ id \in IdSet(lastGroupA)
                              /\ other \in IdSet(lastGroupB)
                              /\ other \notin IdSet(lastGroupA)

\* a tick without movable pulleys on a graph with a load on each side of fixed-1 and
\* a third load that reaches the pulley only through another load
C26_Witness ==
    /\ sandboxTicked /\ prevSandbox.movablePulleys = <<>>
    /\ \E a, b, c \in IdSet(prevSandbox.loads) :
           /\ flagsOf(prevSandbox, a) = {-1} /\ a \in IdSet(lastGroupA)
           /\ flagsOf(prevSandbox, b) = {1} /\ b \in IdSet(lastGroupB)
           /\ fixedEdgeFlags(prevSandbox, {c}) = {}
           /\ flagsOf(prevSandbox, c) # {}

\* ------------------------------------------------------------ the scheduler
\* Math.min(deltaTime, 0.05), in ms
FRAME_CAP == 50
MaxFrames == 3

\* The time between two animation frames, in ms: none, a frame at 60 Hz, the cap
\* itself, and a stall of five seconds
ElapsedSet == {0, 15, 50, 5000}
\* the speed buttons 1.0 and 0.2, in tenths
TimeScales == {10, 2}

\* rawDt * timeScale (App.tsx lines 92-97)
frameDt(deltaTime, scale) == Div(Min(deltaTime, FRAME_CAP) * scale, 10)

frameLastTimeMut(ref, time, stepped) ==
    IF stepped \/ ref = <<>> THEN <<time>> ELSE ref
\* lastTimeRef.current = time (App.tsx line 154)
frameLastTime(ref, time, stepped) == <<time>>

\* animate(time) (App.tsx lines 90-156), the frame coming `elapsed` after the one
\* before it
AnimateFrame ==
    /\ frames < MaxFrames
    /\ \E elapsed \in ElapsedSet, mode \in RealityMode :
        LET time == clock + elapsed
            stepped == lastTimeRef # <<>> /\ ~paused
            dt == frameDt(time - lastTimeRef[1], timeScale)
            simple == activeTab = ATWOOD /\ ~isComplexAtwood
        IN  /\ clock' = time
            /\ lastElapsed' = elapsed
            /\ lastTimeRef' = frameLastTime(lastTimeRef, time, stepped)
            /\ IF stepped
               THEN /\ atwoodState' = IF simple
                                      THEN updateAtwoodPhysics(atwoodState, dt, mode)
                                      ELSE atwoodState
                    /\ sandboxState' = IF simple THEN sandboxState
                                       ELSE updateSandboxPhysics(sandboxState, dt, mode)
                    /\ lastOp' = IF simple THEN "atwood" ELSE "sandbox"
                    /\ lastDt' = dt
                    /\ lastMode' = mode
                    /\ steps' = steps + 1
                    /\ idleSpan' = idleSpan
               ELSE /\ lastOp' = "frame"
                    /\ idleSpan' = idleSpan + elapsed
                    /\ UNCHANGED <<atwoodState, sandboxState, lastDt, lastMode, steps>>
    /\ prevAtwood' = atwoodState
    /\ prevSandbox' = sandboxState
    /\ prevOp' = lastOp
    /\ frames' = frames + 1
    /\ UNCHANGED <<activeTab, paused, timeScale>>

\* the play button: setPaused(!paused) (SimControls line 437)
TogglePause ==
    /\ paused' = ~paused
    /\ lastOp' = IF paused THEN "resume" ELSE "pause"
    /\ idleSpan' = IF paused THEN idleSpan ELSE 0
    /\ prevOp' = lastOp
    /\ prevAtwood' = atwoodState
    /\ prevSandbox' = sandboxState
    /\ UNCHANGED <<atwoodState, sandboxState, activeTab, steps, lastDt, lastMode,
                   timeScale, lastTimeRef, clock, frames, lastElapsed>>

\* the speed buttons: setTimeScale (SimControls lines 422 and 428); the button of the
\* speed already set changes nothing
SetTimeScale ==
    /\ \E v \in TimeScales \ {timeScale} : timeScale' = v
    /\ lastOp' = "speed"
    /\ prevOp' = lastOp
    /\ prevAtwood' = atwoodState
    /\ prevSandbox' = sandboxState
    /\ UNCHANGED <<atwoodState, sandboxState, activeTab, steps, lastDt, lastMode,
                   paused, lastTimeRef, clock, frames, lastElapsed, idleSpan>>

\* the tab buttons: setActiveTab(t); setPaused(true) (App.tsx lines 275 and 281)
SelectTab ==
    /\ \E t \in {ATWOOD, SANDBOX} : activeTab' = t
    /\ paused' = TRUE
    /\ lastOp' = "tab"
    /\ idleSpan' = IF paused THEN idleSpan ELSE 0
    /\ prevOp' = lastOp
    /\ prevAtwood' = atwoodState
    /\ prevSandbox' = sandboxState
    /\ UNCHANGED <<atwoodState, sandboxState, steps, lastDt, lastMode,
                   timeScale, lastTimeRef, clock, frames, lastElapsed>>

\* The application as it is mounted (App.tsx lines 59-69, 84-86)
InitFrames ==
    /\ atwoodState = INITIAL_ATWOOD
    /\ sandboxState = INITIAL_SANDBOX
    /\ activeTab = ATWOOD
    /\ steps = 0
    /\ lastOp = "init"
    /\ lastDt = 0
    /\ lastMode = IDEAL
    /\ prevAtwood = atwoodState
    /\ prevSandbox = sandboxState
    /\ paused = TRUE
    /\ timeScale = 10
    /\ lastTimeRef = <<>>
    /\ clock = 0
    /\ frames = 0
    /\ lastElapsed = 0
    /\ idleSpan = 0
    /\ prevOp = "init"

NextFrames == AnimateFrame \/ TogglePause \/ SetTimeScale \/ SelectTab

SpecFrames == InitFrames /\ [][NextFrames]_vars

\* ------------------------------------------------------------ C27
steppedFrame == lastOp \in {"atwood", "sandbox"}

\* C27: on every animation frame that steps, the dt handed to the step is
\* min(time since the previous frame, 0.05 s) * timeScale, hence within
\* [0, 0.05 * timeScale] however long the frame stalled; a frame delivered while
\* paused invokes no step and leaves atwoodState and sandboxState as they were; and
\* the first stepping frame after a resume is handed the time since the frame before
\* it, not the time the frames of the pause covered.
C27_Scheduler ==
    /\ steppedFrame =>
           /\ ~paused
           /\ lastDt = Div(Min(lastElapsed, FRAME_CAP) * timeScale, 10)
           /\ 0 <= lastDt /\ 10 * lastDt <= FRAME_CAP * timeScale
    /\ (lastOp = "frame" /\ paused) =>
           /\ atwoodState = prevAtwood
           /\ sandboxState = prevSandbox
    /\ (steppedFrame /\ prevOp = "resume" /\ lastElapsed + idleSpan > FRAME_CAP) =>
           10 * lastDt <= lastElapsed * timeScale

\* the first frame after a resume, at slow speed, 15 ms after the last frame of a
\* pause of five seconds or more: the step is handed 3 ms
C27_Witness ==
    /\ steppedFrame /\ prevOp = "resume"
    /\ idleSpan >= 5000
    /\ lastElapsed = 15 /\ timeScale = 2
    /\ lastDt = 3
    /\ atwoodState # prevAtwood

\* ------------------------------------------------------------ authoring
\* `${type}-${Date.now()}`
stampedId(type, now) == type \o "-" \o ToString(now)

LoadColors == <<"#3b82f6", "#ef4444", "#10b981", "#f59e0b", "#8b5cf6">>

\* SimControls lines 175-185
addPulley(prev, type, now) ==
    LET row == IF type = "fixed" THEN prev.fixedPulleys ELSE prev.movablePulleys
        x == IF Len(row) > 0 THEN row[Len(row)].x + 60000 ELSE 400000
        y == IF type = "fixed" THEN 50 ELSE 250
    IN  IF type = "fixed"
        THEN [prev EXCEPT !.fixedPulleys =
                  Append(prev.fixedPulleys, Pulley(stampedId(type, now), x, y))]
        ELSE [prev EXCEPT !.movablePulleys =
                  Append(prev.movablePulleys, Pulley(stampedId(type, now), x, y))]

\* SimControls lines 187-189
addAnchor(prev, now) ==
    [prev EXCEPT !.anchors = Append(prev.anchors, Anchor(stampedId("anchor", now), 50000, 50))]

\* SimControls lines 191-199
addWeightBlock(prev, now) ==
    [prev EXCEPT !.loads =
        Append(prev.loads,
               Load(stampedId("load", now), 5, LoadColors[(Len(prev.loads) % 5) + 1],
                    400000, 350))]

\* SimControls lines 201-208
setRopeMode(prev, mode) ==
    [prev EXCEPT
        !.interactionMode = IF prev.interactionMode = mode THEN "select" ELSE mode,
        !.selectedId = NULL,
        !.ropeConnectionStartId = NULL,
        !.ropeBuilderState =
            [step |-> IF mode = "rope_pulley" THEN "select_first" ELSE "idle",
             firstId |-> NULL, secondId |-> NULL]]

\* SimControls line 210
clearRope(prev) == [prev EXCEPT !.ropeSegments = <<>>]

withoutId(seq, id) == SelectSeq(seq, LAMBDA e : e.id # id)

deleteSelectedMut(prev) ==
    IF prev.selectedId = NULL THEN prev
    ELSE [prev EXCEPT
            !.fixedPulleys = withoutId(prev.fixedPulleys, prev.selectedId),
            !.movablePulleys = withoutId(prev.movablePulleys, prev.selectedId),
            !.loads = withoutId(prev.loads, prev.selectedId),
            !.anchors = withoutId(prev.anchors, prev.selectedId),
            !.ropeSegments = SelectSeq(prev.ropeSegments,
                                 LAMBDA seg : seg.fromId # prev.selectedId),
            !.selectedId = NULL]

\* SimControls lines 212-223
deleteSelected(prev) ==
    IF prev.selectedId = NULL THEN prev
    ELSE [prev EXCEPT
            !.fixedPulleys = withoutId(prev.fixedPulleys, prev.selectedId),
            !.movablePulleys = withoutId(prev.movablePulleys, prev.selectedId),
            !.loads = withoutId(prev.loads, prev.selectedId),
            !.anchors = withoutId(prev.anchors, prev.selectedId),
            !.ropeSegments = SelectSeq(prev.ropeSegments,
                                 LAMBDA seg : seg.fromId # prev.selectedId
                                              /\ seg.toId # prev.selectedId),
            !.selectedId = NULL]

\* App.tsx lines 184-187
handleSandboxSelect(prev, id) ==
    IF StartsWith(prev.interactionMode, "rope") THEN prev
    ELSE [prev EXCEPT !.selectedId = id]

\* getObjCoords(state, id).x (App.tsx lines 189-201)
objX(state, id) ==
    IF FindById(state.anchors, id) # <<>> THEN FindById(state.anchors, id)[1].x
    ELSE IF FindById(state.fixedPulleys, id) # <<>>
    THEN FindById(state.fixedPulleys, id)[1].x
    ELSE IF FindById(state.movablePulleys, id) # <<>>
    THEN FindById(state.movablePulleys, id)[1].x
    ELSE IF FindById(state.loads, id) # <<>> THEN FindById(state.loads, id)[1].x
    ELSE 0

\* the pulley-route tool (App.tsx lines 204-228)
ropePulleyClick(prev, id, now) ==
    LET b == prev.ropeBuilderState
        firstSide == IF objX(prev, b.firstId) < objX(prev, id) THEN -1 ELSE 1
        secondSide == IF objX(prev, b.secondId) < objX(prev, id) THEN -1 ELSE 1
        stamp == "rope-" \o ToString(now)
    IN  IF b.step = "select_first"
        THEN [prev EXCEPT !.ropeBuilderState =
                  [b EXCEPT !.step = "select_second", !.firstId = id]]
        ELSE IF b.step = "select_second"
        THEN IF id = b.firstId THEN prev
             ELSE [prev EXCEPT !.ropeBuilderState =
                       [b EXCEPT !.step = "select_pulley", !.secondId = id]]
        ELSE IF b.step = "select_pulley"
        THEN IF ~StartsWith(id, "fixed") /\ ~StartsWith(id, "movable") THEN prev
             ELSE [prev EXCEPT
                      !.ropeSegments = prev.ropeSegments \o
                          <<Rope(stamp \o "-1", b.firstId, id, "pulley", 0, firstSide),
                            Rope(stamp \o "-2", id, b.secondId, "pulley", secondSide, 0)>>,
                      !.ropeBuilderState =
                          [step |-> "select_first", firstId |-> NULL, secondId |-> NULL]]
        ELSE prev

\* the direct-rope tool (App.tsx lines 230-243)
ropeDirectClick(prev, id, now) ==
    LET start == prev.ropeConnectionStartId
        exists == \E i \in 1..Len(prev.ropeSegments) :
                      \/ /\ prev.ropeSegments[i].fromId = start
                         /\ prev.ropeSegments[i].toId = id
                      \/ /\ prev.ropeSegments[i].fromId = id
                         /\ prev.ropeSegments[i].toId = start
    IN  IF start = NULL THEN [prev EXCEPT !.ropeConnectionStartId = id]
        ELSE IF start = id \/ exists THEN [prev EXCEPT !.ropeConnectionStartId = NULL]
        ELSE [prev EXCEPT
                 !.ropeSegments = Append(prev.ropeSegments,
                     Rope("rope-" \o ToString(now), start, id, "direct", 0, 0)),
                 !.ropeConnectionStartId = NULL]

\* App.tsx lines 203-244
handleSandboxObjectClick(prev, id, now) ==
    IF prev.interactionMode = "rope_pulley" THEN ropePulleyClick(prev, id, now)
    ELSE IF prev.interactionMode = "rope_direct" THEN ropeDirectClick(prev, id, now)
    ELSE prev

\* App.tsx lines 165-183, the Atwood part
resetAtwood(prev) ==
    [prev EXCEPT !.y1 = prev.initialY1, !.y2 = prev.initialY2,
                 !.velocity = 0, !.acceleration = 0, !.angularVelocity = 0,
                 !.tension1 = 0, !.tension2 = 0, !.time = 0, !.isBroken = FALSE]

\* the objects of a scene the buttons add to and the clicks are followed on, the
\* frames run, and the ids handed out to added objects and drawn segments, at most
MaxNodes == 2
MaxAuthorSteps == 1
MaxStamps == 3

nodeCount(state) ==
    Len(state.fixedPulleys) + Len(state.movablePulleys) + Len(state.loads)
        + Len(state.anchors)

\* what an authoring operation leaves alone, and the history it writes: a delete
\* keeps the state it was taken from, the other operations keep none
authored(op) ==
    /\ lastOp' = op
    /\ prevAtwood' = atwoodState
    /\ prevSandbox' = IF op = "delete" THEN sandboxState ELSE sandboxState'
    /\ UNCHANGED <<activeTab, steps, lastDt, lastMode, timeScale, lastTimeRef, frames,
                   lastElapsed, idleSpan, prevOp>>

\* the buttons Fixed Pulley, Anchor and Weight; Date.now() is `clock`.  Movable
\* pulleys come onto the canvas with the preset.
AddObject ==
    /\ nodeCount(sandboxState) < MaxNodes
    /\ clock < MaxStamps
    /\ clock' = clock + 1
    /\ \/ sandboxState' = addPulley(sandboxState, "fixed", clock')
       \/ sandboxState' = addAnchor(sandboxState, clock')
       \/ sandboxState' = addWeightBlock(sandboxState, clock')
    /\ authored("author")
    /\ UNCHANGED <<atwoodState, paused>>

\* the rope tool buttons
SetRopeMode ==
    /\ \E mode \in {"rope_direct", "rope_pulley"} :
           sandboxState' = setRopeMode(sandboxState, mode)
    /\ authored("author")
    /\ UNCHANGED <<atwoodState, paused, clock>>

\* a click on an object of the canvas: mouse down selects it, the click goes to the
\* rope tools (SandboxCanvas lines 48-54, 221-277)
ObjectClick ==
    /\ nodeCount(sandboxState) <= MaxNodes
    /\ sandboxState.interactionMode = "select" \/ clock < MaxStamps
    /\ \E id \in nodeIds(sandboxState) :
           sandboxState' = handleSandboxObjectClick(
                               handleSandboxSelect(sandboxState, id), id, clock + 1)
    /\ clock' = IF Len(sandboxState'.ropeSegments) > Len(sandboxState.ropeSegments)
                THEN clock + 1 ELSE clock
    /\ authored("author")
    /\ UNCHANGED <<atwoodState, paused>>

DeleteSelected ==
    /\ sandboxState.selectedId # NULL
    /\ sandboxState' = deleteSelected(sandboxState)
    /\ authored("delete")
    /\ UNCHANGED <<atwoodState, paused, clock>>

ClearRope ==
    /\ sandboxState.ropeSegments # <<>>
    /\ sandboxState' = clearRope(sandboxState)
    /\ authored("author")
    /\ UNCHANGED <<atwoodState, paused, clock>>

\* handleSandboxClear (App.tsx lines 256-258)
SandboxClear ==
    /\ sandboxState # INITIAL_SANDBOX
    /\ sandboxState' = INITIAL_SANDBOX
    /\ authored("author")
    /\ UNCHANGED <<atwoodState, paused, clock>>

\* applyComplexPreset('movable') (SimControls lines 98-134)
ComplexPreset ==
    /\ sandboxState' = PresetMovable
    /\ paused' = TRUE
    /\ authored("author")
    /\ UNCHANGED <<atwoodState, clock>>

\* handleReset (App.tsx lines 165-183)
Reset ==
    /\ atwoodState' = resetAtwood(atwoodState)
    /\ sandboxState' = INITIAL_SANDBOX
    /\ paused' = TRUE
    /\ authored("author")
    /\ UNCHANGED clock

\* a run of one frame: the play button, animate on the sandbox branch with a frame
\* of 16 ms, and the pause button
AuthorTick ==
    /\ ~(activeTab = ATWOOD /\ ~isComplexAtwood)
    /\ steps < MaxAuthorSteps
    /\ sandboxState' = updateSandboxPhysics(sandboxState, 16, lastMode)
    /\ lastDt' = 16
    /\ lastMode' = lastMode
    /\ prevSandbox' = sandboxState
    /\ lastOp' = "sandbox"
    /\ steps' = steps + 1
    /\ UNCHANGED <<atwoodState, activeTab, prevAtwood, paused, timeScale, lastTimeRef,
                   clock, frames, lastElapsed, idleSpan, prevOp>>

InitAuthor ==
    /\ atwoodState = INITIAL_ATWOOD
    /\ sandboxState = INITIAL_SANDBOX
    /\ activeTab = SANDBOX
    /\ steps = 0
    /\ lastOp = "init"
    /\ lastDt = 0
    /\ lastMode = IDEAL
    /\ prevAtwood = atwoodState
    /\ prevSandbox = sandboxState
    /\ paused = TRUE
    /\ timeScale = 10
    /\ lastTimeRef = <<>>
    /\ clock = 0
    /\ frames = 0
    /\ lastElapsed = 0
    /\ idleSpan = 0
    /\ prevOp = "init"

NextAuthor ==
    \/ AddObject \/ SetRopeMode \/ ObjectClick \/ DeleteSelected \/ ClearRope
    \/ SandboxClear \/ ComplexPreset \/ Reset \/ AuthorTick

SpecAuthor == InitAuthor /\ [][NextAuthor]_vars

\* ------------------------------------------------------------ C28
endsPresent(state) ==
    \A i \in 1..Len(state.ropeSegments) :
        /\ state.ropeSegments[i].fromId \in nodeIds(state)
        /\ state.ropeSegments[i].toId \in nodeIds(state)

MaxLoadSteps == 18

LoadInits ==
    {[INITIAL_SANDBOX EXCEPT !.effortForce = e] :
        e \in {Newton(50), Newton(100), Newton(200)}}

InitLoad ==
    /\ atwoodState = INITIAL_ATWOOD
    /\ sandboxState \in LoadInits
    /\ activeTab = SANDBOX
    /\ steps = 0
    /\ lastOp = "init"
    /\ lastDt = 0
    /\ lastMode \in RealityMode
    /\ prevAtwood = atwoodState
    /\ prevSandbox = sandboxState
    /\ paused = FALSE
    /\ timeScale \in TimeScales
    /\ lastTimeRef = <<0>>
    /\ clock = 0
    /\ frames = 0
    /\ lastElapsed = 0
    /\ idleSpan = 0
    /\ prevOp = "init"

\* animate, the sandbox branch (App.tsx lines 128-147), on a capped frame
LoadTick ==
    /\ ~(activeTab = ATWOOD /\ ~isComplexAtwood)
    /\ steps < MaxLoadSteps
    /\ sandboxState' =
           updateSandboxPhysics(sandboxState, frameDt(FRAME_CAP, timeScale), lastMode)
    /\ lastDt' = frameDt(FRAME_CAP, timeScale)
    /\ prevSandbox' = sandboxState
    /\ lastOp' = "sandbox"
    /\ steps' = steps + 1
    /\ UNCHANGED <<atwoodState, activeTab, prevAtwood, lastMode, schedVars>>

SpecLoad == InitLoad /\ [][LoadTick]_vars

\* ------------------------------------------------------------ C29
\* C29: from its initial 80, loadPosition stays a percentage, within 0..100, after
\* any sequence of sandbox physics steps.
C29_Percentage ==
    /\ sandboxState.loadPosition >= 0
    /\ sandboxState.loadPosition <= 10000000

\* loadPosition moves with the rope and only with it: a step adds the step's rope
\* travel, newRopeVelocity * dt, and nothing holds the sum below 100.
C29_Integrates ==
    lastOp = "sandbox" =>
        sandboxState.loadPosition =
            prevSandbox.loadPosition
                + (IF sandboxState.isBroken THEN 0
                   ELSE deltaRopeOf(sandboxState.loadVelocity, lastDt))

C29_PastHundred ==
    /\ lastOp = "sandbox"
    /\ sandboxState.loadPosition > 10000000
    /\ sandboxState.fixedPulleys = <<>>
    /\ sandboxState.ropeSegments = <<>>

\* ------------------------------------------------------------ Atwood configuration
\* applyAtwoodPreset (SimControls lines 58-96), the Atwood part
applyAtwoodPreset(prev, name) ==
    LET resetProps ==
            [prev EXCEPT !.velocity = 0, !.acceleration = 0, !.angularVelocity = 0,
                         !.tension1 = 0, !.tension2 = 0, !.time = 0,
                         !.isBroken = FALSE, !.ropeMaxTension = Newton(50),
                         !.totalRopeLength = 5000000,
                         !.initialY1 = 2500000, !.initialY2 = 2500000,
                         !.y1 = 2500000, !.y2 = 2500000]
    IN  IF name = "classic"
        THEN [resetProps EXCEPT !.mass1 = Kg(2), !.mass2 = Div(Kg(7), 2),
                                !.pulleyMass = Div(Kg(1), 2), !.frictionCoeff = 5,
                                !.pulleyRadius = 2]
        ELSE IF name = "large-radius"
        THEN [resetProps EXCEPT !.mass1 = Kg(2), !.mass2 = Div(Kg(7), 2),
                                !.pulleyMass = Kg(2), !.frictionCoeff = 5,
                                !.pulleyRadius = 5]
        ELSE prev

\* the Initial Left Height slider (SimControls line 341)
setInitialY1(s, v) ==
    [s EXCEPT !.initialY1 = v, !.y1 = v, !.totalRopeLength = v + s.initialY2]

\* the Initial Right Height slider (SimControls line 347)
setInitialY2(s, v) ==
    [s EXCEPT !.initialY2 = v, !.y2 = v, !.totalRopeLength = s.initialY1 + v]

\* slider positions, of 0.5 m to 5.0 m
HeightSet == {500000, 3000000}

SliderLeft ==
    /\ \E v \in HeightSet : atwoodState' = setInitialY1(atwoodState, v)
    /\ UNCHANGED <<sandboxState, paused, clock>>
    /\ authored("left")

SliderRight ==
    /\ \E v \in HeightSet : atwoodState' = setInitialY2(atwoodState, v)
    /\ UNCHANGED <<sandboxState, paused, clock>>
    /\ authored("right")

AtwoodPreset ==
    /\ \E name \in {"classic", "large-radius"} :
           atwoodState' = applyAtwoodPreset(atwoodState, name)
    /\ sandboxState' = INITIAL_SANDBOX
    /\ paused' = TRUE
    /\ authored("preset")
    /\ UNCHANGED clock

InitConfig ==
    /\ atwoodState = INITIAL_ATWOOD
    /\ sandboxState = INITIAL_SANDBOX
    /\ activeTab = ATWOOD
    /\ steps = 0
    /\ lastOp = "init"
    /\ lastDt = 0
    /\ lastMode = IDEAL
    /\ prevAtwood = atwoodState
    /\ prevSandbox = sandboxState
    /\ schedulerRunning

NextConfig == AtwoodTick \/ SliderLeft \/ SliderRight \/ AtwoodPreset \/ Reset

SpecConfig == InitConfig /\ [][NextConfig]_vars

\* ------------------------------------------------------------ C30
\* C30: through every interleaving of the physics steps with the two Initial Height
\* sliders, the presets and reset, an intact Atwood state has
\* y1 + y2 = totalRopeLength.
C30_RopeLength ==
    ~atwoodState.isBroken =>
        atwoodState.y1 + atwoodState.y2 = atwoodState.totalRopeLength

\* a slider moved after the masses have moved leaves the other mass where the run
\* had brought it and measures the rope from that mass's initial height
C30_EditedAfterMove ==
    /\ lastOp = "right"
    /\ ~atwoodState.isBroken
    /\ prevAtwood.y1 # prevAtwood.initialY1
    /\ atwoodState.y1 + atwoodState.y2 # atwoodState.totalRopeLength

\* moved while the masses are at their initial heights, a slider keeps the sum
C30_EditedAtRest ==
    (/\ lastOp \in {"left", "right"}
     /\ prevAtwood.y1 = prevAtwood.initialY1
     /\ prevAtwood.y2 = prevAtwood.initialY2)
        => atwoodState.y1 + atwoodState.y2 = atwoodState.totalRopeLength

=============================================================================
